---------------------------- MODULE Spec2Model ----------------------------
(***************************************************************************)
(* Model of the rule-based code translator of ai_code_translator:          *)
(* the Style Applier (style_handler.py), the rule-based renderer           *)
(* (transformer_translator.py), the structural analyser and renderer       *)
(* (structure_handler.py), the import classifier (code_analyzer.py) and    *)
(* the token-substitution table (data_cleaner.py).                         *)
(*                                                                         *)
(* Text is a sequence of one-character strings; the regular expressions    *)
(* of the source are written out as left-to-right scanners that make the   *)
(* same (leftmost, greedy, non-overlapping) matches as Python's re.sub.    *)
(***************************************************************************)
EXTENDS Integers, Sequences, FiniteSets, TLC

VARIABLES
    \* casing conversions
    name,        \* the identifier handed to a casing conversion
    trail,       \* the conversions applied to it so far: <<[conv, out]>>
    \* StyleHandler
    code,        \* target code handed to the Style Applier
    style,       \* source_style: indent_size, quote_style, naming_style
    step,        \* which applier step was run ("none" before any)
    formatted,   \* formatted_code after the step(s)
    reformatted, \* result of running the same step(s) on formatted
    source_code, \* the source text the profile is detected from
    given,       \* the config argument of StyleHandler(...): whether one
                 \* was passed, and the fields the caller set in it
    config,      \* self.config of the handler, NoConfig before __init__
    \* TransformerTranslator._rule_based_translate, translate_structure
    source_lang, \* requested language pair
    target_lang,
    py_lines,    \* lines = source_code.split("\n") being translated
    pos,         \* index of the line the loop is at
    indent_level,
    js_lines,    \* lines emitted so far
    pc,          \* where the call is: "idle", "lines", "final", "done"
    call,        \* the operation called: "rule_based" or "structure"
    outcome,     \* what the call returned or raised
    module_info, \* the ModuleInfo handed to translate_structure
    result,      \* the lines translate_structure returned
    \* CodeCleaner.translate_syntax, StructureHandler.analyze_module
    translated,  \* the text translate_syntax returned
    tree,        \* ast.parse(code): the statements of the analysed module
    env,         \* the host: built-in modules, installed packages, files
    \* TransformerTranslator.translate_with_style, api/server.py
    style_handler, \* self.style_handler of the one translator
    calls,       \* the translate_with_style calls in progress, by caller
    api_keys,    \* the api_keys table: key -> monthly_limit, used_requests
    requests,    \* the /translate requests in progress, by client
    \* StructureHandler._preprocess_javascript
    scanner      \* the locals of the line scanner, and the line it is at

caseVars    == <<name, trail>>
styleVars   == <<code, style, step, formatted, reformatted>>
profileVars == <<source_code, given, config>>
renderVars  == <<source_lang, target_lang, py_lines, pos, indent_level,
                 js_lines, pc, call, outcome, module_info, result>>
analysisVars == <<translated, tree, env>>
serviceVars == <<style_handler, calls, api_keys, requests, scanner>>
vars        == <<caseVars, styleVars, profileVars, renderVars, analysisVars,
                 serviceVars>>

-----------------------------------------------------------------------------
(* Characters and the str methods the source uses                          *)

UpperSeq == <<"A","B","C","D","E","F","G","H","I","J","K","L","M",
              "N","O","P","Q","R","S","T","U","V","W","X","Y","Z">>
LowerSeq == <<"a","b","c","d","e","f","g","h","i","j","k","l","m",
              "n","o","p","q","r","s","t","u","v","w","x","y","z">>
DigitSeq == <<"0","1","2","3","4","5","6","7","8","9">>

Upper == {UpperSeq[i] : i \in 1..Len(UpperSeq)}
Lower == {LowerSeq[i] : i \in 1..Len(LowerSeq)}
Digit == {DigitSeq[i] : i \in 1..Len(DigitSeq)}
Alpha == Upper \cup Lower
WordChar == Alpha \cup Digit \cup {"_"}
Space == {" ", "\t", "\n", "\r", "\f"}

LowerChar(c) ==
    IF c \in Upper THEN LowerSeq[CHOOSE i \in 1..Len(UpperSeq) : UpperSeq[i] = c]
    ELSE c

UpperChar(c) ==
    IF c \in Lower THEN UpperSeq[CHOOSE i \in 1..Len(LowerSeq) : LowerSeq[i] = c]
    ELSE c

\* str.lower()
lower(s) == [i \in 1..Len(s) |-> LowerChar(s[i])]

\* str.title(): a cased character is upper-cased when the character before
\* it is not cased, lower-cased otherwise
title(s) ==
    [i \in 1..Len(s) |->
        IF i > 1 /\ s[i-1] \in Alpha THEN LowerChar(s[i]) ELSE UpperChar(s[i])]

\* s[i:] and s[i:j] of Python, in 1-based positions i..j
Slice(s, i, j) == IF j < i THEN << >> ELSE SubSeq(s, i, j)

Contains(s, c) == \E i \in 1..Len(s) : s[i] = c

\* str.split(sep) for a one-character separator: <<component, ...>>, the
\* texts between one separator (or the start) and the next (or the end)
split(s, sep) ==
    LET seps == {i \in 1..Len(s) : s[i] = sep}
        cut(k) == IF k = 0 THEN 0
                  ELSE IF k > Cardinality(seps) THEN Len(s) + 1
                  ELSE CHOOSE i \in seps :
                          Cardinality({j \in seps : j < i}) = k - 1
    IN  [k \in 1..(Cardinality(seps) + 1) |->
            Slice(s, cut(k - 1) + 1, cut(k) - 1)]

\* ''.join(parts) and sep.join(parts)
RECURSIVE Concat(_)
Concat(parts) ==
    IF parts = << >> THEN << >> ELSE Head(parts) \o Concat(Tail(parts))

RECURSIVE join(_, _)
join(sep, parts) ==
    IF parts = << >> THEN << >>
    ELSE IF Len(parts) = 1 THEN Head(parts)
    ELSE Head(parts) \o sep \o join(sep, Tail(parts))

-----------------------------------------------------------------------------
(* Casing conversions: style_handler.py, _apply_naming_convention          *)

\* end of the run of characters of class cls that starts at position i
RECURSIVE RunEnd(_, _, _)
RunEnd(s, i, cls) ==
    IF i + 1 <= Len(s) /\ s[i + 1] \in cls THEN RunEnd(s, i + 1, cls) ELSE i

\* re.sub('(.)([A-Z][a-z]+)', r'\1_\2', s)
RECURSIVE SubCapWord(_, _)
SubCapWord(s, i) ==
    IF i > Len(s) THEN << >>
    ELSE IF /\ i + 2 <= Len(s)
            /\ s[i] # "\n"
            /\ s[i + 1] \in Upper
            /\ s[i + 2] \in Lower
         THEN LET j == RunEnd(s, i + 2, Lower)
              IN  <<s[i], "_">> \o Slice(s, i + 1, j) \o SubCapWord(s, j + 1)
         ELSE <<s[i]>> \o SubCapWord(s, i + 1)

\* re.sub('([a-z0-9])([A-Z])', r'\1_\2', s)
RECURSIVE SubLowerUpper(_, _)
SubLowerUpper(s, i) ==
    IF i > Len(s) THEN << >>
    ELSE IF /\ i + 1 <= Len(s)
            /\ s[i] \in Lower \cup Digit
            /\ s[i + 1] \in Upper
         THEN <<s[i], "_", s[i + 1]>> \o SubLowerUpper(s, i + 2)
         ELSE <<s[i]>> \o SubLowerUpper(s, i + 1)

to_snake_case(n) ==
    LET s1 == SubCapWord(n, 1)
    IN  lower(SubLowerUpper(s1, 1))

TitleAll(components) == [k \in 1..Len(components) |-> title(components[k])]

to_camel_case(n) ==
    IF Contains(n, "_")
    THEN LET components == split(n, "_")
         IN  lower(components[1]) \o Concat(TitleAll(Tail(components)))
    ELSE IF n # << >> /\ n[1] \in Upper
         THEN <<LowerChar(n[1])>> \o Tail(n)
         ELSE n

to_pascal_case(n) ==
    LET components ==
            IF Contains(n, "_") THEN split(n, "_")
            ELSE LET s1 == SubCapWord(n, 1)
                     s2 == SubLowerUpper(s1, 1)
                 IN  split(lower(s2), "_")
    IN  Concat(TitleAll(components))

Conventions == {"snake_case", "camelCase", "PascalCase"}

Convert(conv, n) ==
    CASE conv = "snake_case" -> to_snake_case(n)
      [] conv = "camelCase"  -> to_camel_case(n)
      [] conv = "PascalCase" -> to_pascal_case(n)

-----------------------------------------------------------------------------
(* Re-indentation: style_handler.py, _apply_indentation                    *)

\* len(line) - len(line.lstrip())
RECURSIVE LeadFrom(_, _)
LeadFrom(line, i) ==
    IF i <= Len(line) /\ line[i] \in Space THEN LeadFrom(line, i + 1) ELSE i - 1

Lead(line) == LeadFrom(line, 1)

lstrip(line) == Slice(line, Lead(line) + 1, Len(line))

\* not line.strip()
IsBlank(line) == Lead(line) = Len(line)

Spaces(n) == [i \in 1..n |-> " "]

\* the original indentation unit the code assumes
AssumedUnit == 4

IndentLevel(original_indent, base_indent) ==
    (original_indent - base_indent) \div AssumedUnit

\* ReindentLine with the level not scaled by the new indent size
ReindentLineUnscaled(line, base_indent, size) ==
    IF IsBlank(line) THEN line
    ELSE LET original_indent == Lead(line)
         IN  IF original_indent >= base_indent
             THEN Spaces(base_indent
                         + IndentLevel(original_indent, base_indent))
                  \o lstrip(line)
             ELSE Spaces(original_indent) \o lstrip(line)

ReindentLine(line, base_indent, size) ==
    IF IsBlank(line) THEN line
    ELSE LET original_indent == Lead(line)
         IN  IF original_indent >= base_indent
             THEN Spaces(base_indent
                         + IndentLevel(original_indent, base_indent) * size)
                  \o lstrip(line)
             ELSE Spaces(original_indent) \o lstrip(line)

BaseIndent(lines) ==
    LET nonblank == {i \in 1..Len(lines) : ~IsBlank(lines[i])}
    IN  IF nonblank = {} THEN 0
        ELSE Lead(lines[CHOOSE i \in nonblank : \A j \in nonblank : i <= j])

_apply_indentation(c, size) ==
    LET lines == split(c, "\n")
        base_indent == BaseIndent(lines)
    IN  join(<<"\n">>,
             [i \in 1..Len(lines) |-> ReindentLine(lines[i], base_indent, size)])

-----------------------------------------------------------------------------
(* Re-quoting: style_handler.py, _apply_quote_style                        *)

QuoteStyles == {"single", "double"}

\* the grave accent that delimits a template literal, as a character symbol
Backtick == "GRAVE"

QuoteChar(quote_style) == IF quote_style = "single" THEN "'" ELSE "\""

\* str.replace(old, new) for a one-character old
RECURSIVE ReplaceChar(_, _, _)
ReplaceChar(s, old, new) ==
    IF s = << >> THEN << >>
    ELSE (IF Head(s) = old THEN new ELSE <<Head(s)>>)
         \o ReplaceChar(Tail(s), old, new)

\* str.replace(old, new) for a two-character old
RECURSIVE ReplacePair(_, _, _, _)
ReplacePair(s, i, old, new) ==
    IF i > Len(s) THEN << >>
    ELSE IF i + 1 <= Len(s) /\ s[i] = old[1] /\ s[i + 1] = old[2]
         THEN new \o ReplacePair(s, i + 2, old, new)
         ELSE <<s[i]>> \o ReplacePair(s, i + 1, old, new)

replace_quotes(content, quote_style) ==
    LET quote == QuoteChar(quote_style)
        other_quote == IF quote = "'" THEN "\"" ELSE "'"
        escaped == ReplaceChar(content, quote, <<"\\", quote>>)
        unescaped == ReplacePair(escaped, 1, <<"\\", other_quote>>,
                                 <<other_quote>>)
    IN  <<quote>> \o unescaped \o <<quote>>

\* Where the literal opened at the delimiter before position j closes:
\* the position of the closing delimiter of  d([^d\\]*(?:\\.[^d\\]*)*)d ,
\* or 0 when the pattern does not match there.
RECURSIVE LiteralEnd(_, _, _)
LiteralEnd(s, j, d) ==
    IF j > Len(s) THEN 0
    ELSE IF s[j] = d THEN j
    ELSE IF s[j] = "\\"
         THEN IF j + 1 <= Len(s) /\ s[j + 1] # "\n"
              THEN LiteralEnd(s, j + 2, d)
              ELSE 0
    ELSE LiteralEnd(s, j + 1, d)

\* re.sub(pattern, replace_quotes, code) for the literal pattern of d
RECURSIVE SubLiterals(_, _, _, _)
SubLiterals(s, i, d, quote_style) ==
    IF i > Len(s) THEN << >>
    ELSE LET e == IF s[i] = d THEN LiteralEnd(s, i + 1, d) ELSE 0
         IN  IF e # 0
             THEN replace_quotes(Slice(s, i + 1, e - 1), quote_style)
                  \o SubLiterals(s, e + 1, d, quote_style)
             ELSE <<s[i]>> \o SubLiterals(s, i + 1, d, quote_style)

\* first position at or after j that holds character d, 0 when there is none
RECURSIVE Find(_, _, _)
Find(s, j, d) ==
    IF j > Len(s) THEN 0
    ELSE IF s[j] = d THEN j
    ELSE Find(s, j + 1, d)

StartsAt(s, i, lit) ==
    /\ i + Len(lit) - 1 <= Len(s)
    /\ \A k \in 1..Len(lit) : s[i + k - 1] = lit[k]

\* re.sub(opener \s* from ([^from]*) from,  opener ' ' to \1 to, code):
\* a quoted string right after a comment opener is re-quoted
RECURSIVE SubCommentLiteral(_, _, _, _, _)
SubCommentLiteral(s, i, opener, from, to) ==
    IF i > Len(s) THEN << >>
    ELSE LET q1 == IF StartsAt(s, i, opener)
                   THEN RunEnd(s, i + Len(opener) - 1, Space) + 1
                   ELSE 0
             q2 == IF q1 # 0 /\ q1 <= Len(s) /\ s[q1] = from
                   THEN Find(s, q1 + 1, from)
                   ELSE 0
         IN  IF q2 # 0
             THEN opener \o <<" ", to>> \o Slice(s, q1 + 1, q2 - 1) \o <<to>>
                  \o SubCommentLiteral(s, q2 + 1, opener, from, to)
             ELSE <<s[i]>> \o SubCommentLiteral(s, i + 1, opener, from, to)

\* '$' under re.MULTILINE holds at position p (before s[p], or at the end)
AtLineEnd(s, p) == p = Len(s) + 1 \/ (p <= Len(s) /\ s[p] = "\n")

\* re.sub(r'(//\s*)([^"\']+)$', ..., code, flags=re.MULTILINE):
\* the match at i is <<start of group 2, position after group 2>>,
\* <<0, 0>> when there is none
CommentTailMatch(s, i) ==
    IF ~StartsAt(s, i, <<"/", "/">>) THEN <<0, 0>>
    ELSE LET wsEnd == RunEnd(s, i + 1, Space)      \* last char of greedy \s*
             firstQ == LET a == Find(s, i + 2, "'")
                           b == Find(s, i + 2, "\"")
                       IN  IF a = 0 THEN b
                           ELSE IF b = 0 THEN a
                           ELSE IF a < b THEN a ELSE b
             limit == IF firstQ = 0 THEN Len(s) + 1 ELSE firstQ
             Ends(g) == {p \in (g + 1)..limit : AtLineEnd(s, p)}
             starts == {g \in (i + 2)..(wsEnd + 1) : Ends(g) # {}}
         IN  IF starts = {} THEN <<0, 0>>
             ELSE LET g == CHOOSE x \in starts : \A y \in starts : y <= x
                      p == CHOOSE x \in Ends(g) : \A y \in Ends(g) : y <= x
                  IN  <<g, p>>

RECURSIVE SubCommentTail(_, _, _)
SubCommentTail(s, i, quote_style) ==
    IF i > Len(s) THEN << >>
    ELSE LET m == CommentTailMatch(s, i)
             q == QuoteChar(quote_style)
         IN  IF m # <<0, 0>>
             THEN Slice(s, i, m[1] - 1) \o <<q>> \o Slice(s, m[1], m[2] - 1)
                  \o <<q>> \o SubCommentTail(s, m[2], quote_style)
             ELSE <<s[i]>> \o SubCommentTail(s, i + 1, quote_style)

_apply_quote_style(c, quote_style) ==
    IF quote_style \notin QuoteStyles THEN c
    ELSE LET c1 == SubLiterals(c, 1, "\"", quote_style)
             c2 == SubLiterals(c1, 1, "'", quote_style)
             c3 == SubLiterals(c2, 1, Backtick, quote_style)
             from == IF quote_style = "single" THEN "\"" ELSE "'"
             to == QuoteChar(quote_style)
             c4 == SubCommentLiteral(c3, 1, <<"/", "/">>, from, to)
             c5 == SubCommentLiteral(c4, 1, <<"/", "*">>, from, to)
         IN  SubCommentTail(c5, 1, quote_style)

-----------------------------------------------------------------------------
(* Re-casing: style_handler.py, _apply_naming_convention                   *)

\* should_convert_name(name, "class"): a class name that is already
\* PascalCase is not converted
should_convert_name(n, match_type) ==
    ~(/\ match_type = "class"
      /\ n[1] \in Upper
      /\ \E k \in 2..Len(n) : n[k] \in Lower)

ClassKeyword == <<"c", "l", "a", "s", "s">>

\* re.sub(r'class\s+([A-Za-z][A-Za-z0-9_]*)', ..., code): the declared name
\* is kept when should_convert_name says so, else converted with conv
RECURSIVE SubClassNames(_, _, _)
SubClassNames(s, i, conv) ==
    IF i > Len(s) THEN << >>
    ELSE LET w == IF StartsAt(s, i, ClassKeyword) THEN RunEnd(s, i + 4, Space)
                  ELSE 0
             matches == /\ w >= i + 5
                        /\ w + 1 <= Len(s)
                        /\ s[w + 1] \in Alpha
             e == RunEnd(s, w + 1, WordChar)
             n == Slice(s, w + 1, e)
         IN  IF matches
             THEN ClassKeyword \o <<" ">>
                  \o (IF ~should_convert_name(n, "class") THEN n
                      ELSE Convert(conv, n))
                  \o SubClassNames(s, e + 1, conv)
             ELSE <<s[i]>> \o SubClassNames(s, i + 1, conv)

\* \b before position i, for a word character at i
WordStart(s, i) == i = 1 \/ s[i - 1] \notin WordChar

\* re.sub(r'\b([A-Za-z][A-Za-z0-9_]*)\b(?![({])', ..., code): every word
\* that starts with a letter and is not followed by '(' or '{'
RECURSIVE SubVariables(_, _, _)
SubVariables(s, i, conv) ==
    IF i > Len(s) THEN << >>
    ELSE IF s[i] \in Alpha /\ WordStart(s, i)
         THEN LET e == RunEnd(s, i, WordChar)
                  n == Slice(s, i, e)
                  called == e + 1 <= Len(s) /\ s[e + 1] \in {"(", "{"}
              IN  (IF called THEN n
                   ELSE IF conv = "snake_case" THEN to_snake_case(n)
                   ELSE IF n[1] \notin Upper THEN to_camel_case(n)
                   ELSE n)
                  \o SubVariables(s, e + 1, conv)
         ELSE <<s[i]>> \o SubVariables(s, i + 1, conv)

\* re.sub(r'\b([A-Za-z][A-Za-z0-9_]*)\b(?=\s*[({])', ..., code): every word
\* that starts with a letter and is followed by '(' or '{'
RECURSIVE SubCalled(_, _)
SubCalled(s, i) ==
    IF i > Len(s) THEN << >>
    ELSE IF s[i] \in Alpha /\ WordStart(s, i)
         THEN LET e == RunEnd(s, i, WordChar)
                  n == Slice(s, i, e)
                  w == RunEnd(s, e, Space)
                  called == w + 1 <= Len(s) /\ s[w + 1] \in {"(", "{"}
              IN  (IF called THEN to_pascal_case(n) ELSE n)
                  \o SubCalled(s, e + 1)
         ELSE <<s[i]>> \o SubCalled(s, i + 1)

_apply_naming_convention(c, convention) ==
    IF convention \notin Conventions THEN c
    ELSE IF convention = "snake_case"
         THEN SubVariables(SubClassNames(c, 1, "snake_case"), 1, "snake_case")
    ELSE IF convention = "camelCase"
         THEN SubVariables(SubClassNames(c, 1, "PascalCase"), 1, "camelCase")
    ELSE SubCalled(c, 1)

\* the words of a text: <<first position, last position>> of every maximal
\* run of word characters, in order
RECURSIVE WordSpans(_, _)
WordSpans(s, i) ==
    IF i > Len(s) THEN << >>
    ELSE IF s[i] \in WordChar
         THEN LET e == RunEnd(s, i, WordChar)
              IN  <<(<<i, e>>)>> \o WordSpans(s, e + 1)
         ELSE WordSpans(s, i + 1)

WordAt(s, span) == Slice(s, span[1], span[2])


-----------------------------------------------------------------------------
(* The Style Profiler: style_handler.py, _extract_style_characteristics    *)

\* StyleConfig(): the defaults of the dataclass
DefaultIndentSize == 4
DefaultMaxLineLength == 80
DefaultConfig ==
    [indent_size |-> DefaultIndentSize, max_line_length |-> DefaultMaxLineLength,
     quote_style |-> "double", naming_convention |-> "snake_case",
     bracket_style |-> "same_line"]

\* indents.count(x)
CountOf(seq, x) == Cardinality({i \in 1..Len(seq) : seq[i] = x})

\* the indentation of the first indented line
_detect_indentation_first(c, cfg) ==
    LET lines == split(c, "\n")
        idx == {i \in 1..Len(lines) : ~IsBlank(lines[i]) /\ Lead(lines[i]) > 0}
    IN  IF idx = {} THEN cfg.indent_size
        ELSE Lead(lines[CHOOSE i \in idx : \A j \in idx : i <= j])

\* max(set(indents), key=indents.count): the first most frequent element in
\* the iteration order of the set, which for a few integers below 8 is
\* ascending order
_detect_indentation(c, cfg) ==
    LET lines == split(c, "\n")
        idx == {i \in 1..Len(lines) : ~IsBlank(lines[i]) /\ Lead(lines[i]) > 0}
        indents == {Lead(lines[i]) : i \in idx}
        count(x) == Cardinality({i \in idx : Lead(lines[i]) = x})
    IN  IF idx = {} THEN cfg.indent_size
        ELSE CHOOSE x \in indents :
                \A y \in indents :
                    count(y) < count(x) \/ (count(y) = count(x) /\ x <= y)

\* len(re.findall(r"(?<!\\)d[^d\\]*(?:\\.[^d\\]*)*d", code))
RECURSIVE CountLiterals(_, _, _)
CountLiterals(s, i, d) ==
    IF i > Len(s) THEN 0
    ELSE LET e == IF s[i] = d /\ (i = 1 \/ s[i - 1] # "\\")
                  THEN LiteralEnd(s, i + 1, d)
                  ELSE 0
         IN  IF e # 0 THEN 1 + CountLiterals(s, e + 1, d)
             ELSE CountLiterals(s, i + 1, d)

_detect_quote_style(c, cfg) ==
    LET single_quotes == CountLiterals(c, 1, "'")
        double_quotes == CountLiterals(c, 1, "\"")
    IN  IF single_quotes = 0 /\ double_quotes = 0 THEN cfg.quote_style
        ELSE IF single_quotes > double_quotes THEN "single"
        ELSE "double"

Word(str) ==
    CASE str = "def" -> <<"d","e","f">>
      [] str = "class" -> <<"c","l","a","s","s">>
      [] str = "if" -> <<"i","f">>
      [] str = "else" -> <<"e","l","s","e">>
      [] str = "while" -> <<"w","h","i","l","e">>
      [] str = "for" -> <<"f","o","r">>
      [] str = "try" -> <<"t","r","y">>
      [] str = "except" -> <<"e","x","c","e","p","t">>
      [] str = "return" -> <<"r","e","t","u","r","n">>
      [] str = "import" -> <<"i","m","p","o","r","t">>
      [] str = "from" -> <<"f","r","o","m">>
      [] str = "function" -> <<"f","u","n","c","t","i","o","n">>
      [] str = "var" -> <<"v","a","r">>
      [] str = "let" -> <<"l","e","t">>
      [] str = "const" -> <<"c","o","n","s","t">>
      [] str = "new" -> <<"n","e","w">>
      [] str = "this" -> <<"t","h","i","s">>
      [] str = "super" -> <<"s","u","p","e","r">>
      [] str = "extends" -> <<"e","x","t","e","n","d","s">>
      [] str = "constructor" -> <<"c","o","n","s","t","r","u","c","t","o","r">>

keywords ==
    {Word(k) : k \in {"def", "class", "if", "else", "while", "for", "try",
                      "except", "return", "import", "from", "function", "var",
                      "let", "const", "new", "this", "super", "extends",
                      "constructor"}}

\* re.findall(r'\b[a-zA-Z_]\w*\b', code): the words that do not start with a
\* digit, in order
Names(c) ==
    LET spans == WordSpans(c, 1)
        keep == {k \in 1..Len(spans) : c[spans[k][1]] \notin Digit}
    IN  [k \in keep |-> WordAt(c, spans[k])]

islower(n) == (\E k \in 1..Len(n) : n[k] \in Lower)
              /\ (\A k \in 1..Len(n) : n[k] \notin Upper)
isupper(n) == (\E k \in 1..Len(n) : n[k] \in Upper)
              /\ (\A k \in 1..Len(n) : n[k] \notin Lower)

\* which counter a name adds to, and how much
Vote(n) ==
    IF Contains(n, "_") /\ islower(n) THEN <<"snake_case", 1>>
    ELSE IF n[1] \in Upper /\ ~Contains(n, "_") THEN <<"PascalCase", 1>>
    ELSE IF /\ n[1] \in Lower
            /\ ~Contains(n, "_")
            /\ \E k \in 2..Len(n) : n[k] \in Upper
         THEN <<"camelCase", 2>>
    ELSE IF islower(n) THEN <<"snake_case", 1>>
    ELSE IF isupper(n) THEN <<"snake_case", 1>>
    ELSE <<"none", 0>>

RECURSIVE SumOver(_, _)
SumOver(f, S) ==
    IF S = {} THEN 0
    ELSE LET x == CHOOSE x \in S : TRUE IN f[x] + SumOver(f, S \ {x})

_detect_naming_convention(c, cfg) ==
    LET all == Names(c)
        kept == {k \in DOMAIN all :
                    /\ all[k] \notin keywords
                    /\ ~StartsAt(all[k], 1, <<"_", "_">>)}
        votes(conv) ==
            SumOver([k \in kept |-> IF Vote(all[k])[1] = conv
                                    THEN Vote(all[k])[2] ELSE 0], kept)
        snake_case == votes("snake_case")
        camel_case == votes("camelCase")
        pascal_case == votes("PascalCase")
    IN  IF kept = {} THEN cfg.naming_convention
        \* max(counts.items(), key=...): the first of the largest, in the
        \* order snake_case, camelCase, PascalCase
        ELSE IF snake_case >= camel_case /\ snake_case >= pascal_case
             THEN "snake_case"
        ELSE IF camel_case >= pascal_case THEN "camelCase"
        ELSE "PascalCase"

\* the length of the longest non-blank line
_detect_max_line_length_longest(c, cfg) ==
    LET lines == split(c, "\n")
        kept == SelectSeq(lines, LAMBDA line : ~IsBlank(line))
    IN  IF kept = << >> THEN cfg.max_line_length
        ELSE CHOOSE v \in {Len(kept[k]) : k \in 1..Len(kept)} :
                \A k \in 1..Len(kept) : Len(kept[k]) <= v

\* lengths = [len(line) for line in lines if line.strip()], sorted, and the
\* element at index int(len(sorted_lengths) * 0.9); the product is a float,
\* and its truncation is 9 * len \div 10 for every len below two million
_detect_max_line_length(c, cfg) ==
    LET lines == split(c, "\n")
        kept == SelectSeq(lines, LAMBDA line : ~IsBlank(line))
        lengths == [k \in 1..Len(kept) |-> Len(kept[k])]
        sorted_lengths == SortSeq(lengths, LAMBDA a, b : a < b)
        idx == (9 * Len(sorted_lengths)) \div 10
    IN  IF lengths = << >> THEN cfg.max_line_length
        ELSE sorted_lengths[idx + 1]

\* len(re.findall(r'\)\s*{', code)) and, with newline, of
\* r'\)\s*\n\s*{': the close-parens followed by a run of white space (\s
\* matches a line break too), holding a line break if asked for, and then
\* an open brace
CloseOpenCount(c, newline) ==
    Cardinality({i \in 1..Len(c) :
        /\ c[i] = ")"
        /\ LET e == RunEnd(c, i, Space)
           IN  /\ e < Len(c)
               /\ c[e + 1] = "{"
               /\ newline => \E k \in (i + 1)..e : c[k] = "\n"})

_detect_bracket_style(c) ==
    LET same_line == CloseOpenCount(c, FALSE)
        new_line == CloseOpenCount(c, TRUE)
    IN  IF same_line >= new_line THEN "same_line" ELSE "new_line"

_extract_style_characteristics(c, cfg) ==
    [indent_size |-> _detect_indentation(c, cfg),
     quote_style |-> _detect_quote_style(c, cfg),
     naming_style |-> _detect_naming_convention(c, cfg),
     max_line_length |-> _detect_max_line_length(c, cfg),
     bracket_style |-> _detect_bracket_style(c)]

-----------------------------------------------------------------------------
(* The Style Applier: style_handler.py, preserve_style lines 45-54         *)

\* the applier steps of preserve_style, in the order the code runs them
ApplyStyle(c, st) ==
    LET named == _apply_naming_convention(c, st.naming_style)
        indented == _apply_indentation(named, st.indent_size)
    IN  _apply_quote_style(indented, st.quote_style)


-----------------------------------------------------------------------------
(* Rule-based rendering: transformer_translator.py, _rule_based_translate  *)
(*                                                                         *)
(* A line of code is a sequence of tokens: the keywords and punctuation    *)
(* the renderer looks at are tokens of their own, each brace is one token. *)

\* str.replace(old, new) where old is one token and new a token sequence
RECURSIVE ReplaceTok(_, _, _)
ReplaceTok(toks, old, new) ==
    IF toks = << >> THEN << >>
    ELSE (IF Head(toks) = old THEN new ELSE <<Head(toks)>>)
         \o ReplaceTok(Tail(toks), old, new)

CountTok(toks, t) == Cardinality({i \in 1..Len(toks) : toks[i] = t})

\* str.find(t) as a 1-based position, 0 when absent
FindTok(toks, t) ==
    IF \E i \in 1..Len(toks) : toks[i] = t
    THEN CHOOSE i \in 1..Len(toks) :
            toks[i] = t /\ \A j \in 1..(i - 1) : toks[j] # t
    ELSE 0

\* stripped.startswith(prefix): the first token is the prefix, or a longer
\* keyword that begins with it
startswith(stripped, prefix) ==
    /\ stripped # << >>
    /\ \/ Head(stripped) = prefix
       \/ prefix = "def " /\ Head(stripped) \in
              {"def __init__", "def __iter__", "def __next__"}

\* stripped[6:].split("(")[0].split(":")[0].strip()
ClassName(stripped) ==
    LET rest == Tail(stripped)
        stops == {i \in 1..Len(rest) : rest[i] \in {"(", ":"}}
        stop == IF stops = {} THEN Len(rest) + 1
                ELSE CHOOSE i \in stops : \A j \in stops : i <= j
    IN  Slice(rest, 1, stop - 1)

\* Params with the receiver left in the parameter list
ParamsWithSelf(stripped) ==
    LET inner == Slice(stripped, FindTok(stripped, "(") + 1,
                       FindTok(stripped, ")") - 1)
    IN  ReplaceTok(inner, "self, ", <<"self", ", ">>)

\* stripped[stripped.find("(") + 1:stripped.find(")")]
\*     .replace("self, ", "").replace("self", "").strip()
Params(stripped) ==
    LET inner == Slice(stripped, FindTok(stripped, "(") + 1,
                       FindTok(stripped, ")") - 1)
    IN  ReplaceTok(ReplaceTok(inner, "self, ", << >>), "self", << >>)

\* stripped[4:stripped.find("(")].strip()
MethodName(stripped) == Slice(stripped, 2, FindTok(stripped, "(") - 1)

JsLine(ind, toks) == [ind |-> ind, toks |-> toks]

\* the lines one source line adds to js_lines, at indentation level ind
Rendered(stripped, ind) ==
    IF startswith(stripped, "class ")
    THEN <<JsLine(ind, <<"class ">> \o ClassName(stripped) \o <<" ", "{">>)>>
    ELSE IF startswith(stripped, "def __init__")
    THEN <<JsLine(ind, <<"constructor", "(">> \o Params(stripped)
                       \o <<")", " ", "{">>)>>
    ELSE IF startswith(stripped, "def __iter__")
    THEN <<JsLine(ind, <<"[Symbol.iterator]", "(", ")", " ", "{", "{">>),
           JsLine(ind, <<"    ", "return ", "this", ";">>),
           JsLine(ind, <<"}", "}">>)>>
    ELSE IF startswith(stripped, "def __next__")
    THEN <<JsLine(ind, <<"next", "(", ")", " ", "{", "{">>)>>
    ELSE IF startswith(stripped, "def ")
    THEN <<JsLine(ind, MethodName(stripped) \o <<"(">> \o Params(stripped)
                       \o <<")", " ", "{">>)>>
    ELSE IF startswith(stripped, "return ")
    THEN <<JsLine(ind, ReplaceTok(stripped, "self.", <<"this.">>) \o <<";">>)>>
    ELSE IF startswith(stripped, "self.")
    THEN <<JsLine(ind, ReplaceTok(stripped, "self.", <<"this.">>) \o <<";">>)>>
    ELSE IF startswith(stripped, "raise StopIteration")
    THEN <<JsLine(ind, <<"return ", "undefined", ";">>)>>
    ELSE IF startswith(stripped, "if ")
    THEN <<JsLine(ind, ReplaceTok(stripped, ":", <<" ", "{", "{">>))>>
    ELSE <<JsLine(ind, ReplaceTok(stripped, "self.", <<"this.">>) \o <<";">>)>>

\* the source lines after which indent_level += 4
OpensBlock(stripped) ==
    \/ startswith(stripped, "class ")
    \/ startswith(stripped, "def __init__")
    \/ (startswith(stripped, "def ") /\ ~startswith(stripped, "def __iter__"))
    \/ (~startswith(stripped, "def ")
        /\ ~startswith(stripped, "return ")
        /\ ~startswith(stripped, "self.")
        /\ ~startswith(stripped, "raise StopIteration")
        /\ startswith(stripped, "if "))

IndentUnit == 4


-----------------------------------------------------------------------------
(* Structural rendering: structure_handler.py, translate_structure         *)
(*                                                                         *)
(* A rendered line is a sequence of tokens; << >> is an empty line.        *)

ImportCategories == <<"standard_lib", "third_party", "local", "unknown">>

\* the dictionary CodeAnalyzer.analyze_imports starts from
NoImports == [c \in {ImportCategories[i] : i \in 1..4} |-> << >>]

\* a ModuleInfo with no functions and no classes; a dict is the sequence of
\* its items in insertion order
EmptyModule ==
    [imports |-> NoImports, functions |-> << >>, classes |-> << >>,
     globals |-> << >>]

\* sep.join(items) for one-token items
RECURSIVE JoinTok(_, _)
JoinTok(sep, items) ==
    IF items = << >> THEN << >>
    ELSE IF Len(items) = 1 THEN <<items[1]>>
    ELSE <<items[1], sep>> \o JoinTok(sep, Tail(items))

\* result.extend(f(x) for x in items), f given as the sequence of its values
RECURSIVE Flatten(_)
Flatten(seqs) ==
    IF seqs = << >> THEN << >> ELSE Head(seqs) \o Flatten(Tail(seqs))

NonEmpty(body) == SelectSeq(body, LAMBDA line : line # << >>)

\* line.strip().endswith(';')
EndsWithSemicolon(line) == line # << >> /\ line[Len(line)] = ";"

JsBodyLine(line) ==
    LET l == ReplaceTok(line, "self.", <<"this.">>)
    IN  <<"    ">> \o (IF EndsWithSemicolon(l) THEN l ELSE l \o <<";">>)

PyBodyLine(line) ==
    LET l == ReplaceTok(line, "this.", <<"self.">>)
    IN  <<"    ">> \o (IF EndsWithSemicolon(l) THEN Slice(l, 1, Len(l) - 1)
                      ELSE l)

_translate_method(method_name, method_info, tgt) ==
    LET body == NonEmpty(method_info.body)
        doc == method_info.docstring
    IN  IF tgt = "javascript"
        THEN <<(IF method_name = "__init__" THEN <<"constructor">>
                ELSE <<method_name>>)
               \o <<"(">> \o JoinTok(", ", method_info.args)
               \o <<")", " ", "{">>>>
             \o (IF doc # << >>
                 THEN <<(<<"    ", "/**">>)>>
                      \o [k \in 1..Len(doc) |-> <<"     * ", doc[k]>>]
                      \o <<(<<"     */">>)>>
                 ELSE << >>)
             \o [k \in 1..Len(body) |-> JsBodyLine(body[k])]
             \o <<(<<"}">>)>>
        ELSE <<(<<"def ", method_name, "(", "self">>
                \o (IF method_info.args # << >>
                    THEN <<", ">> \o JoinTok(", ", method_info.args)
                    ELSE << >>)
                \o <<")", ":">>)>>
             \o (IF doc # << >>
                 THEN <<(<<"    ", "\"\"\"">> \o doc \o <<"\"\"\"">>)>>
                 ELSE << >>)
             \o [k \in 1..Len(body) |-> PyBodyLine(body[k])]
             \o <<(<< >>)>>

_translate_class(class_name, class_info, tgt) ==
    LET doc == class_info.docstring
        methods == class_info.methods
    IN  (IF doc = << >> THEN << >>
         ELSE IF tgt = "javascript"
         THEN <<(<<"/**">>)>> \o [k \in 1..Len(doc) |-> <<" * ", doc[k]>>]
              \o <<(<<" */">>)>>
         ELSE <<(<<"\"\"\"">>)>> \o [k \in 1..Len(doc) |-> <<doc[k]>>]
              \o <<(<<"\"\"\"">>)>>)
        \o (IF tgt = "javascript"
            THEN <<(<<"class ", class_name>>
                    \o (IF class_info.bases # << >>
                        THEN <<" extends ">> \o JoinTok(", ", class_info.bases)
                        ELSE << >>)
                    \o <<" ", "{">>)>>
            ELSE <<(<<"class ", class_name>>
                    \o (IF class_info.bases # << >>
                        THEN <<"(">> \o JoinTok(", ", class_info.bases)
                             \o <<")">>
                        ELSE << >>)
                    \o <<":">>)>>)
        \o Flatten([k \in 1..Len(methods) |->
                      _translate_method(methods[k].name, methods[k],
                                        tgt)])
        \o (IF tgt = "javascript" THEN <<(<<"}">>)>> ELSE << >>)

\* func_info.get(key, default)
Get(func_info, key, default) ==
    IF key \in DOMAIN func_info THEN func_info[key] ELSE default

_translate_function(func_name, func_info, tgt) ==
    LET doc == Get(func_info, "docstring", << >>)
        params == Get(func_info, "params", << >>)
        body == Get(func_info, "body", <<(<<"pass">>)>>)
    IN  (IF doc = << >> THEN << >>
         ELSE IF tgt = "javascript"
         THEN <<(<<"/**">>)>> \o [k \in 1..Len(doc) |-> <<" * ", doc[k]>>]
              \o <<(<<" */">>)>>
         ELSE <<(<<"\"\"\"">> \o doc \o <<"\"\"\"">>)>>)
        \o (IF tgt = "javascript"
            THEN <<(<<"function ", func_name, "(">> \o JoinTok(", ", params)
                    \o <<")", " ", "{">>)>>
                 \o [k \in 1..Len(body) |->
                       IF body[k] = <<"pass">>
                       THEN <<"    ", "// Empty function">>
                       ELSE <<"    ">> \o body[k]]
                 \o <<(<<"}">>)>>
            ELSE <<(<<"def ", func_name, "(">> \o JoinTok(", ", params)
                    \o <<")", ":">>)>>
                 \o [k \in 1..Len(body) |-> <<"    ">> \o body[k]])

\* repr() of a module name: a dotted name is the sequence of its components
Repr(module_name) == <<"'">> \o JoinTok(".", module_name) \o <<"'">>

\* imports.items() in insertion order: the four categories of
\* analyze_imports, each with its list of modules
_translate_imports(imports, tgt) ==
    IF tgt = "javascript"
    THEN [k \in 1..Len(ImportCategories) |->
            <<"import ", ImportCategories[k], " from ", "'",
              ImportCategories[k], "'", ";">>]
    ELSE [k \in 1..Len(ImportCategories) |->
            <<"import ", ImportCategories[k], " as ", "[">>
            \o join(<<", ">>, [m \in 1..Len(imports[ImportCategories[k]]) |->
                     Repr(imports[ImportCategories[k]][m])])
            \o <<"]">>]

\* "\n".join(result).strip(): blank lines at either end are dropped
RECURSIVE StripLines(_)
StripLines(ls) ==
    IF ls = << >> THEN << >>
    ELSE IF Head(ls) = << >> THEN StripLines(Tail(ls))
    ELSE IF ls[Len(ls)] = << >> THEN StripLines(Slice(ls, 1, Len(ls) - 1))
    ELSE ls

\* translate_structure with the classes rendered before the functions
translate_structure_classes_first(info, tgt) ==
    LET funcs == info.functions
        classes == info.classes
    IN  StripLines(
            (IF DOMAIN info.imports # {}
             THEN _translate_imports(info.imports, tgt) \o <<(<< >>)>>
             ELSE << >>)
            \o Flatten([k \in 1..Len(classes) |->
                          _translate_class(classes[k].name, classes[k],
                                           tgt)
                          \o <<(<< >>)>>])
            \o Flatten([k \in 1..Len(funcs) |->
                          _translate_function(funcs[k].name, funcs[k],
                                              tgt)
                          \o <<(<< >>)>>]))

\* bool(module_info.imports): a dict with four keys is true
translate_structure(info, tgt) ==
    LET funcs == info.functions
        classes == info.classes
    IN  StripLines(
            (IF DOMAIN info.imports # {}
             THEN _translate_imports(info.imports, tgt) \o <<(<< >>)>>
             ELSE << >>)
            \o Flatten([k \in 1..Len(funcs) |->
                          _translate_function(funcs[k].name, funcs[k],
                                              tgt)
                          \o <<(<< >>)>>])
            \o Flatten([k \in 1..Len(classes) |->
                          _translate_class(classes[k].name, classes[k],
                                           tgt)
                          \o <<(<< >>)>>]))

-----------------------------------------------------------------------------
(* Structural analysis: code_analyzer.py, analyze_imports, and             *)
(* structure_handler.py, analyze_module                                    *)
(*                                                                         *)
(* tree is the body of ast.parse(code): a sequence of nodes, each with its *)
(* class (kind), its name, its argument names, its body and, for an import *)
(* statement, the module it names. A statement without a name of its own   *)
(* carries its unparsed text as a line of tokens.                          *)

AstNode(kind, node_name, args, body, module, text) ==
    [kind |-> kind, name |-> node_name, args |-> args, body |-> body,
     module |-> module, text |-> text]

\* import a.b
Import(module) == AstNode("Import", "", << >>, << >>, module, << >>)
\* from a.b import n; module is << >> (None) in "from . import n"
ImportFrom(module, n) == AstNode("ImportFrom", n, << >>, << >>, module, << >>)
FunctionDef(n, args, body) ==
    AstNode("FunctionDef", n, args, body, << >>, << >>)
AsyncFunctionDef(n, args, body) ==
    AstNode("AsyncFunctionDef", n, args, body, << >>, << >>)
ClassDef(n, body) == AstNode("ClassDef", n, << >>, body, << >>, << >>)
\* any other statement
Stmt(text) == AstNode("Stmt", "", << >>, << >>, << >>, text)
\* a Name node with ctx Store
Name(id) == AstNode("Name", id, << >>, << >>, << >>, << >>)
\* id = value: the target is a child of the Assign node
Assign(id, text) == AstNode("Assign", "", << >>, <<Name(id)>>, << >>, text)

\* ast.walk(tree): the nodes breadth first, each with the class of its
\* parent
RECURSIVE WalkLevel(_)
WalkLevel(level) ==
    IF level = << >> THEN << >>
    ELSE level
         \o WalkLevel(Flatten([k \in 1..Len(level) |->
                [j \in 1..Len(level[k].node.body) |->
                    [node |-> level[k].node.body[j],
                     parent |-> level[k].node.kind]]]))

Walk(t) == WalkLevel([k \in 1..Len(t) |-> [node |-> t[k], parent |-> "Module"]])

\* d[key] = value for a dict kept as the sequence of its values, each with
\* its key in the field name
Put(dict, value) ==
    IF \E k \in 1..Len(dict) : dict[k].name = value.name
    THEN [k \in 1..Len(dict) |->
            IF dict[k].name = value.name THEN value ELSE dict[k]]
    ELSE Append(dict, value)

RECURSIVE PutAll(_, _)
PutAll(dict, values) ==
    IF values = << >> THEN dict
    ELSE PutAll(Put(dict, Head(values)), Tail(values))

\* ast.unparse(node.body).split('\n'), each line stripped
BodyLines(node) == [k \in 1..Len(node.body) |-> node.body[k].text]

_analyze_method(node) ==
    [name |-> node.name,
     args |-> SelectSeq(node.args, LAMBDA a : a # "self"),
     docstring |-> << >>,
     body |-> BodyLines(node)]

_analyze_class(node) ==
    [name |-> node.name,
     bases |-> << >>,
     docstring |-> << >>,
     methods |-> PutAll(<< >>,
         LET defs == SelectSeq(node.body, LAMBDA c : c.kind = "FunctionDef")
         IN  [k \in 1..Len(defs) |-> _analyze_method(defs[k])])]

_analyze_function(node) ==
    [name |-> node.name,
     args |-> node.args,
     docstring |-> << >>,
     body |-> BodyLines(node)]

_categorize_import(module_name, imports, host) ==
    LET root_module == module_name[1]
        category ==
            IF root_module \in host.stdlib THEN "standard_lib"
            ELSE IF root_module \in host.known_packages THEN "third_party"
            ELSE IF root_module \in host.files THEN "local"
            ELSE "unknown"
    IN  [imports EXCEPT ![category] = Append(@, module_name)]

RECURSIVE CategorizeAll(_, _, _)
CategorizeAll(nodes, imports, host) ==
    IF nodes = << >> THEN imports
    ELSE LET node == Head(nodes).node
         IN  CategorizeAll(Tail(nodes),
                 IF node.kind = "Import"
                    \/ (node.kind = "ImportFrom" /\ node.module # << >>)
                 THEN _categorize_import(node.module, imports, host)
                 ELSE imports,
                 host)

analyze_imports(t, host) == CategorizeAll(Walk(t), NoImports, host)

analyze_module(t, host) ==
    LET nodes == Walk(t)
        class_defs == SelectSeq(nodes, LAMBDA n : n.node.kind = "ClassDef")
        function_defs ==
            SelectSeq(nodes, LAMBDA n : /\ n.node.kind = "FunctionDef"
                                        /\ n.parent # "ClassDef")
        stores == SelectSeq(nodes, LAMBDA n : /\ n.node.kind = "Name"
                                              /\ n.parent = "Module")
    IN  [imports |-> analyze_imports(t, host),
         functions |-> PutAll(<< >>, [k \in 1..Len(function_defs) |->
                          _analyze_function(function_defs[k].node)]),
         classes |-> PutAll(<< >>, [k \in 1..Len(class_defs) |->
                        _analyze_class(class_defs[k].node)]),
         globals |-> [k \in 1..Len(stores) |-> stores[k].node.name]]

-----------------------------------------------------------------------------
(* Token substitution: data_cleaner.py, py_patterns, js_patterns and       *)
(* translate_syntax                                                        *)
(*                                                                         *)
(* A pattern is the sequence of the elements of its regular expression: a  *)
(* literal text, or one of (\w+), (\d+), (.*?) and \s*, numbered when it   *)
(* is a group. A replacement is a sequence of texts and group references.  *)

Lit(s) == [t |-> "lit", s |-> s, g |-> 0]
Group(t, g) == [t |-> t, s |-> << >>, g |-> g]
Txt(s) == [g |-> 0, s |-> s]
Ref(g) == [g |-> g, s |-> << >>]

py_patterns == <<
    \* (\w+)\.append\((.*?)\)  ->  \1.push(\2)
    [pattern |->
       <<Group("word+", 1), Lit(<<".", "a", "p", "p", "e", "n", "d", "(">>),
         Group("lazy", 2), Lit(<<")">>)>>,
     replacement |->
       <<Ref(1), Txt(<<".", "p", "u", "s", "h", "(">>), Ref(2), Txt(<<")">>)>>],
    \* len\((.*?)\)  ->  \1.length
    [pattern |->
       <<Lit(<<"l", "e", "n", "(">>), Group("lazy", 1), Lit(<<")">>)>>,
     replacement |->
       <<Ref(1), Txt(<<".", "l", "e", "n", "g", "t", "h">>)>>],
    \* (\w+)\.extend\((.*?)\)  ->  \1.push(...\2)
    [pattern |->
       <<Group("word+", 1), Lit(<<".", "e", "x", "t", "e", "n", "d", "(">>),
         Group("lazy", 2), Lit(<<")">>)>>,
     replacement |->
       <<Ref(1), Txt(<<".", "p", "u", "s", "h", "(", ".", ".", ".">>),
         Ref(2), Txt(<<")">>)>>],
    \* (\w+)\.keys\(\)  ->  Object.keys(\1)
    [pattern |->
       <<Group("word+", 1), Lit(<<".", "k", "e", "y", "s", "(", ")">>)>>,
     replacement |->
       <<Txt(<<"O", "b", "j", "e", "c", "t", ".", "k", "e", "y", "s",
         "(">>), Ref(1), Txt(<<")">>)>>],
    \* (\w+)\.values\(\)  ->  Object.values(\1)
    [pattern |->
       <<Group("word+", 1), Lit(<<".", "v", "a", "l", "u", "e", "s", "(",
         ")">>)>>,
     replacement |->
       <<Txt(<<"O", "b", "j", "e", "c", "t", ".", "v", "a", "l", "u", "e",
         "s", "(">>), Ref(1), Txt(<<")">>)>>],
    \* (\w+)\.items\(\)  ->  Object.entries(\1)
    [pattern |->
       <<Group("word+", 1), Lit(<<".", "i", "t", "e", "m", "s", "(", ")">>)>>,
     replacement |->
       <<Txt(<<"O", "b", "j", "e", "c", "t", ".", "e", "n", "t", "r", "i",
         "e", "s", "(">>), Ref(1), Txt(<<")">>)>>],
    \* (\w+)\.join\((.*?)\)  ->  \2.join(\1)
    [pattern |->
       <<Group("word+", 1), Lit(<<".", "j", "o", "i", "n", "(">>),
         Group("lazy", 2), Lit(<<")">>)>>,
     replacement |->
       <<Ref(2), Txt(<<".", "j", "o", "i", "n", "(">>), Ref(1), Txt(<<")">>)>>],
    \* (\w+)\.strip\(\)  ->  \1.trim()
    [pattern |->
       <<Group("word+", 1), Lit(<<".", "s", "t", "r", "i", "p", "(", ")">>)>>,
     replacement |->
       <<Ref(1), Txt(<<".", "t", "r", "i", "m", "(", ")">>)>>],
    \* (\w+)\.lower\(\)  ->  \1.toLowerCase()
    [pattern |->
       <<Group("word+", 1), Lit(<<".", "l", "o", "w", "e", "r", "(", ")">>)>>,
     replacement |->
       <<Ref(1), Txt(<<".", "t", "o", "L", "o", "w", "e", "r", "C", "a",
         "s", "e", "(", ")">>)>>],
    \* (\w+)\.upper\(\)  ->  \1.toUpperCase()
    [pattern |->
       <<Group("word+", 1), Lit(<<".", "u", "p", "p", "e", "r", "(", ")">>)>>,
     replacement |->
       <<Ref(1), Txt(<<".", "t", "o", "U", "p", "p", "e", "r", "C", "a",
         "s", "e", "(", ")">>)>>],
    \* range\((\d+)\)  ->  Array.from({length: \1}, (_, i) => i)
    [pattern |->
       <<Lit(<<"r", "a", "n", "g", "e", "(">>), Group("digit+", 1),
         Lit(<<")">>)>>,
     replacement |->
       <<Txt(<<"A", "r", "r", "a", "y", ".", "f", "r", "o", "m", "(", "{",
         "l", "e", "n", "g", "t", "h", ":", " ">>), Ref(1), Txt(<<"}", ",",
         " ", "(", "_", ",", " ", "i", ")", " ", "=", ">", " ", "i", ")">>)>>],
    \* range\((.*?),\s*(.*?)\)  ->  Array.from({length: \2-\1}, (_, i) => i+\1)
    [pattern |->
       <<Lit(<<"r", "a", "n", "g", "e", "(">>), Group("lazy", 1),
         Lit(<<",">>), Group("space*", 0), Group("lazy", 2), Lit(<<")">>)>>,
     replacement |->
       <<Txt(<<"A", "r", "r", "a", "y", ".", "f", "r", "o", "m", "(", "{",
         "l", "e", "n", "g", "t", "h", ":", " ">>), Ref(2), Txt(<<"-">>),
         Ref(1), Txt(<<"}", ",", " ", "(", "_", ",", " ", "i", ")", " ",
         "=", ">", " ", "i", "+">>), Ref(1), Txt(<<")">>)>>],
    \* \[(.*?) for (.*?) in (.*?)\]  ->  \3.map(\2 => \1)
    [pattern |->
       <<Lit(<<"[">>), Group("lazy", 1), Lit(<<" ", "f", "o", "r", " ">>),
         Group("lazy", 2), Lit(<<" ", "i", "n", " ">>), Group("lazy", 3),
         Lit(<<"]">>)>>,
     replacement |->
       <<Ref(3), Txt(<<".", "m", "a", "p", "(">>), Ref(2), Txt(<<" ", "=",
         ">", " ">>), Ref(1), Txt(<<")">>)>>],
    \* \[(.*?) for (.*?) in (.*?) if (.*?)\]  ->  \3.filter(\2 => \4).map(\2 => \1)
    [pattern |->
       <<Lit(<<"[">>), Group("lazy", 1), Lit(<<" ", "f", "o", "r", " ">>),
         Group("lazy", 2), Lit(<<" ", "i", "n", " ">>), Group("lazy", 3),
         Lit(<<" ", "i", "f", " ">>), Group("lazy", 4), Lit(<<"]">>)>>,
     replacement |->
       <<Ref(3), Txt(<<".", "f", "i", "l", "t", "e", "r", "(">>), Ref(2),
         Txt(<<" ", "=", ">", " ">>), Ref(4), Txt(<<")", ".", "m", "a", "p",
         "(">>), Ref(2), Txt(<<" ", "=", ">", " ">>), Ref(1), Txt(<<")">>)>>]
>>

js_patterns == <<
    \* (\w+)\.push\((.*?)\)  ->  \1.append(\2)
    [pattern |->
       <<Group("word+", 1), Lit(<<".", "p", "u", "s", "h", "(">>),
         Group("lazy", 2), Lit(<<")">>)>>,
     replacement |->
       <<Ref(1), Txt(<<".", "a", "p", "p", "e", "n", "d", "(">>), Ref(2),
         Txt(<<")">>)>>],
    \* (\w+)\.length  ->  len(\1)
    [pattern |->
       <<Group("word+", 1), Lit(<<".", "l", "e", "n", "g", "t", "h">>)>>,
     replacement |->
       <<Txt(<<"l", "e", "n", "(">>), Ref(1), Txt(<<")">>)>>],
    \* (\w+)\.splice\((.*?)\)  ->  \1[\2]
    [pattern |->
       <<Group("word+", 1), Lit(<<".", "s", "p", "l", "i", "c", "e", "(">>),
         Group("lazy", 2), Lit(<<")">>)>>,
     replacement |->
       <<Ref(1), Txt(<<"[">>), Ref(2), Txt(<<"]">>)>>],
    \* Object\.keys\((.*?)\)  ->  \1.keys()
    [pattern |->
       <<Lit(<<"O", "b", "j", "e", "c", "t", ".", "k", "e", "y", "s",
         "(">>), Group("lazy", 1), Lit(<<")">>)>>,
     replacement |->
       <<Ref(1), Txt(<<".", "k", "e", "y", "s", "(", ")">>)>>],
    \* Object\.values\((.*?)\)  ->  \1.values()
    [pattern |->
       <<Lit(<<"O", "b", "j", "e", "c", "t", ".", "v", "a", "l", "u", "e",
         "s", "(">>), Group("lazy", 1), Lit(<<")">>)>>,
     replacement |->
       <<Ref(1), Txt(<<".", "v", "a", "l", "u", "e", "s", "(", ")">>)>>],
    \* Object\.entries\((.*?)\)  ->  \1.items()
    [pattern |->
       <<Lit(<<"O", "b", "j", "e", "c", "t", ".", "e", "n", "t", "r", "i",
         "e", "s", "(">>), Group("lazy", 1), Lit(<<")">>)>>,
     replacement |->
       <<Ref(1), Txt(<<".", "i", "t", "e", "m", "s", "(", ")">>)>>],
    \* (\w+)\.trim\(\)  ->  \1.strip()
    [pattern |->
       <<Group("word+", 1), Lit(<<".", "t", "r", "i", "m", "(", ")">>)>>,
     replacement |->
       <<Ref(1), Txt(<<".", "s", "t", "r", "i", "p", "(", ")">>)>>],
    \* (\w+)\.toLowerCase\(\)  ->  \1.lower()
    [pattern |->
       <<Group("word+", 1), Lit(<<".", "t", "o", "L", "o", "w", "e", "r",
         "C", "a", "s", "e", "(", ")">>)>>,
     replacement |->
       <<Ref(1), Txt(<<".", "l", "o", "w", "e", "r", "(", ")">>)>>],
    \* (\w+)\.toUpperCase\(\)  ->  \1.upper()
    [pattern |->
       <<Group("word+", 1), Lit(<<".", "t", "o", "U", "p", "p", "e", "r",
         "C", "a", "s", "e", "(", ")">>)>>,
     replacement |->
       <<Ref(1), Txt(<<".", "u", "p", "p", "e", "r", "(", ")">>)>>],
    \* Array\.from\({length:\s*(\d+)}\)  ->  [None] * \1
    [pattern |->
       <<Lit(<<"A", "r", "r", "a", "y", ".", "f", "r", "o", "m", "(", "{",
         "l", "e", "n", "g", "t", "h", ":">>), Group("space*", 0),
         Group("digit+", 1), Lit(<<"}", ")">>)>>,
     replacement |->
       <<Txt(<<"[", "N", "o", "n", "e", "]", " ", "*", " ">>), Ref(1)>>],
    \* Array\((.*?)\)\.fill\((.*?)\)  ->  [\2] * \1
    [pattern |->
       <<Lit(<<"A", "r", "r", "a", "y", "(">>), Group("lazy", 1), Lit(<<")",
         ".", "f", "i", "l", "l", "(">>), Group("lazy", 2), Lit(<<")">>)>>,
     replacement |->
       <<Txt(<<"[">>), Ref(2), Txt(<<"]", " ", "*", " ">>), Ref(1)>>],
    \* \((.*?)\)\s*=>\s*{(.*?)}  ->  lambda \1: \2
    [pattern |->
       <<Lit(<<"(">>), Group("lazy", 1), Lit(<<")">>), Group("space*", 0),
         Lit(<<"=", ">">>), Group("space*", 0), Lit(<<"{">>), Group("lazy",
         2), Lit(<<"}">>)>>,
     replacement |->
       <<Txt(<<"l", "a", "m", "b", "d", "a", " ">>), Ref(1), Txt(<<":",
         " ">>), Ref(2)>>]
>>

\* the characters an element of a pattern matches
ClassOf(t) ==
    CASE t = "word+"  -> WordChar
      [] t = "digit+" -> Digit
      [] t = "space*" -> Space
      [] t = "space+" -> Space

\* how many characters from position at on are in chars
Run(text, at, chars) ==
    LET stops == {p \in at..Len(text) : text[p] \notin chars}
    IN  IF stops = {} THEN Len(text) - at + 1
        ELSE (CHOOSE p \in stops : \A r \in stops : p <= r) - at

\* '.' matches every character but the line break
AnyChar(text) == {text[p] : p \in 1..Len(text)} \ {"\n"}

NoGroups == <<<< >>, << >>, << >>, << >>>>
NoMatch == [ok |-> FALSE, end |-> 0, groups |-> NoGroups]

Capture(groups, g, text, at, n) ==
    IF g = 0 THEN groups
    ELSE [groups EXCEPT ![g] = Slice(text, at, at + n - 1)]

\* the match of the elements k.. of pat at position at that a backtracking
\* matcher finds first: of the lengths an element can take with the rest
\* of the pattern matching after it, a greedy element takes the longest and
\* the lazy one the shortest
RECURSIVE Match(_, _, _, _, _)
Match(pat, k, text, at, groups) ==
    IF k > Len(pat) THEN [ok |-> TRUE, end |-> at, groups |-> groups]
    ELSE LET e == pat[k]
             After(n) == Match(pat, k + 1, text, at + n,
                               Capture(groups, e.g, text, at, n))
         IN  IF e.t = "lit"
             THEN IF /\ at + Len(e.s) - 1 <= Len(text)
                     /\ Slice(text, at, at + Len(e.s) - 1) = e.s
                  THEN After(Len(e.s))
                  ELSE NoMatch
             ELSE LET lazy == e.t = "lazy"
                      run == IF lazy THEN Run(text, at, AnyChar(text))
                             ELSE Run(text, at, ClassOf(e.t))
                      least == IF e.t \in {"lazy", "space*"} THEN 0 ELSE 1
                      fits == {n \in least..run : After(n).ok}
                  IN  IF fits = {} THEN NoMatch
                      ELSE After(CHOOSE n \in fits : \A o \in fits :
                                    IF lazy THEN n <= o ELSE n >= o)

\* Expand with the group references left empty
ExpandLiteral(replacement, groups) ==
    Flatten([k \in 1..Len(replacement) |-> replacement[k].s])

\* match.expand(replacement)
Expand(replacement, groups) ==
    Flatten([k \in 1..Len(replacement) |->
               IF replacement[k].g = 0 THEN replacement[k].s
               ELSE groups[replacement[k].g]])

\* re.sub(pattern, replacement, code): leftmost matches, not overlapping
RECURSIVE SubFrom(_, _, _, _)
SubFrom(rule, text, at, out) ==
    LET starts == {p \in at..Len(text) :
                      Match(rule.pattern, 1, text, p, NoGroups).ok}
    IN  IF starts = {} THEN out \o Slice(text, at, Len(text))
        ELSE LET p == CHOOSE p \in starts : \A r \in starts : p <= r
                 m == Match(rule.pattern, 1, text, p, NoGroups)
             IN  SubFrom(rule, text, m.end,
                         out \o Slice(text, at, p - 1)
                             \o Expand(rule.replacement, m.groups))

\* for pattern, replacement in patterns.items(): code = re.sub(...)
RECURSIVE ApplyRules(_, _)
ApplyRules(rules, text) ==
    IF rules = << >> THEN text
    ELSE ApplyRules(Tail(rules), SubFrom(Head(rules), text, 1, << >>))

translate_syntax(c, lang) ==
    ApplyRules(IF lang = "python" THEN py_patterns ELSE js_patterns, c)


-----------------------------------------------------------------------------
(* Bounds                                                                  *)

MaxNameLen == 3      \* characters of an identifier
MaxTrail == 3        \* conversions chained on one identifier

NameChars == {"a", "b", "B", "_", "2"}
NameStart == NameChars \cap Alpha   \* the callers match [A-Za-z][A-Za-z0-9_]*

MaxLines == 3        \* lines of code handed to _apply_indentation
MaxLead == 6         \* leading spaces of one such line
MaxIndentSize == 3   \* indent_size of a profile

MaxQuoteLen == 5     \* characters of code handed to _apply_quote_style

MaxWords == 3        \* words of code handed to _apply_naming_convention

MaxApplyLen == 7     \* characters of code handed to the applier steps

MaxSourceLines == 2  \* lines of the source text a profile is detected from
MaxSourceLead == 2   \* leading spaces of one such line

MaxSrcLines == 3     \* lines of Python source handed to _rule_based_translate
MaxDepth == 2        \* nesting depth of a line of that source
MaxClasses == 1      \* classes of a ModuleInfo
MaxMethods == 1      \* methods of one class
MaxFunctions == 1    \* module-level functions of a ModuleInfo

MaxDigits == 2       \* digits of an integer literal

MaxNodes == 4        \* statements at module level of an analysed source

MaxImports == 3      \* import statements of a classified source

MaxLimit == 2        \* monthly_limit of an API key

MaxClients == 2      \* clients sending /translate requests at the same time

MaxMembers == 2      \* members of the class of a scanned JavaScript source

MaxLengthLines == 11 \* lines of a source whose line lengths are measured

MaxDetectLines == 3  \* lines of the source text styles are detected from

MaxCallers == 2      \* concurrent callers of translate_with_style

NoStyle == [indent_size |-> 0, quote_style |-> "none", naming_style |-> "none"]

NoConfig ==
    [indent_size |-> 0, quote_style |-> "none", naming_convention |-> "none"]

NoOutcome == [kind |-> "none", src |-> "none", tgt |-> "none"]

\* the parts of the state an operation has not touched yet
CaseIdle ==
    /\ name = << >>
    /\ trail = << >>

StyleIdle ==
    /\ code = << >>
    /\ style = NoStyle
    /\ step = "none"
    /\ formatted = << >>
    /\ reformatted = << >>

ProfileIdle ==
    /\ source_code = << >>
    /\ given = [passed |-> FALSE, set |-> {}]
    /\ config = NoConfig

NoHost == [stdlib |-> {}, known_packages |-> {}, files |-> {}]

AnalysisIdle ==
    /\ translated = << >>
    /\ tree = << >>
    /\ env = NoHost

\* no call of translate_with_style and no request to the API server
ServiceIdle ==
    /\ style_handler = "none"
    /\ calls = << >>
    /\ api_keys = << >>
    /\ requests = << >>
    /\ scanner = << >>

RenderIdle ==
    /\ source_lang = "none"
    /\ target_lang = "none"
    /\ py_lines = << >>
    /\ pos = 0
    /\ indent_level = 0
    /\ js_lines = << >>
    /\ pc = "idle"
    /\ call = "none"
    /\ outcome = NoOutcome
    /\ module_info = EmptyModule
    /\ result = << >>

-----------------------------------------------------------------------------
(* Specification of the casing conversions                                 *)

CaseInit ==
    /\ CaseIdle
    /\ StyleIdle
    /\ ProfileIdle
    /\ AnalysisIdle
    /\ ServiceIdle
    /\ RenderIdle

\* the caller spells an identifier
TypeName(c) ==
    /\ trail = << >>
    /\ Len(name) < MaxNameLen
    /\ c \in (IF name = << >> THEN NameStart ELSE NameChars)
    /\ name' = Append(name, c)
    /\ UNCHANGED <<trail, styleVars, profileVars, renderVars, analysisVars,
                   serviceVars>>

Current == IF trail = << >> THEN name ELSE trail[Len(trail)].out

Converted(conv) ==
    /\ name # << >>
    /\ Len(trail) < MaxTrail
    /\ trail' = Append(trail, [conv |-> conv, out |-> Convert(conv, Current)])
    /\ UNCHANGED <<name, styleVars, profileVars, renderVars, analysisVars,
                   serviceVars>>

ToSnakeCase == Converted("snake_case")
ToCamelCase == Converted("camelCase")
ToPascalCase == Converted("PascalCase")

CaseNext ==
    \/ \E c \in NameChars : TypeName(c)
    \/ ToSnakeCase
    \/ ToCamelCase
    \/ ToPascalCase

SpecCase == CaseInit /\ [][CaseNext]_vars

\* the tokens of an identifier: split on underscores and before a capital
\* that follows a lowercase letter or a digit, letter case ignored
TokenBoundaries(n) == split(lower(SubLowerUpper(n, 1)), "_")

\* C8: each casing conversion is idempotent: converting the result of a
\* conversion to the same convention again returns it unchanged.
C8_ConversionIdempotent ==
    \A k \in 2..Len(trail) :
        trail[k].conv = trail[k - 1].conv => trail[k].out = trail[k - 1].out

\* C9: converting to X, then to Y, then back to X gives the token
\* boundaries of the first conversion to X.
C9_RoundTrip ==
    (Len(trail) = 3 /\ trail[1].conv = trail[3].conv)
        => TokenBoundaries(trail[3].out) = TokenBoundaries(trail[1].out)

-----------------------------------------------------------------------------
(* Specification of re-indentation                                         *)

\* a line of code: k leading spaces, then nothing or a statement
CodeLines ==
    {Spaces(k) \o b : k \in 0..MaxLead, b \in {<< >>, <<"a">>}}

LineCount(c) == Len(split(c, "\n"))

IndentInit ==
    /\ CaseIdle
    /\ code \in CodeLines
    /\ style = NoStyle
    /\ step = "none"
    /\ formatted = << >>
    /\ reformatted = << >>
    /\ ProfileIdle
    /\ AnalysisIdle
    /\ ServiceIdle
    /\ RenderIdle

\* one more line of the code to format
TypeLine(line) ==
    /\ step = "none"
    /\ LineCount(code) < MaxLines
    /\ code' = code \o <<"\n">> \o line
    /\ UNCHANGED <<caseVars, profileVars, renderVars, analysisVars,
                   serviceVars, style, step, formatted, reformatted>>

ApplyIndentation(size) ==
    /\ step = "none"
    /\ style' = [style EXCEPT !.indent_size = size]
    /\ formatted' = _apply_indentation(code, size)
    /\ step' = "indent"
    /\ UNCHANGED <<caseVars, profileVars, renderVars, analysisVars,
                   serviceVars, code, reformatted>>

IndentNext ==
    \/ \E line \in CodeLines : TypeLine(line)
    \/ \E size \in 1..MaxIndentSize : ApplyIndentation(size)

SpecIndent == IndentInit /\ [][IndentNext]_vars

InLines == split(code, "\n")
OutLines == split(formatted, "\n")
NonBlank(lines) == {i \in 1..Len(lines) : ~IsBlank(lines[i])}

\* leading whitespace of the first non-blank line of the input (0 if none)
FirstLead ==
    IF NonBlank(InLines) = {} THEN 0
    ELSE Lead(InLines[CHOOSE i \in NonBlank(InLines) :
                        \A j \in NonBlank(InLines) : i <= j])

\* C4 as stated: after re-indentation with unit size, every non-blank
\* output line's leading whitespace is a multiple of size.
C4_IndentMultipleOfSize ==
    step = "indent" =>
        \A i \in NonBlank(OutLines) : Lead(OutLines[i]) % style.indent_size = 0

\* C4 as amended: a non-blank line indented at least as deep as the first
\* non-blank line gets that line's own indentation plus a multiple of size;
\* a line indented less than the first non-blank line keeps its indentation.
C4_IndentRelativeToBase ==
    step = "indent" =>
        /\ Len(OutLines) = Len(InLines)
        /\ \A i \in NonBlank(InLines) :
              IF Lead(InLines[i]) >= FirstLead
              THEN /\ Lead(OutLines[i]) >= FirstLead
                   /\ (Lead(OutLines[i]) - FirstLead) % style.indent_size = 0
              ELSE Lead(OutLines[i]) = Lead(InLines[i])

\* C4 witness: an indented first line, a deeper line that was re-indented
\* above it, and a line shallower than the first line.
C4_Witness ==
    /\ step = "indent"
    /\ style.indent_size > 1
    /\ FirstLead > 0
    /\ \E i \in NonBlank(InLines) : Lead(OutLines[i]) > FirstLead
    /\ \E i \in NonBlank(InLines) : Lead(InLines[i]) < FirstLead

\* C5: re-indentation preserves relative nesting: a line indented strictly
\* deeper than another in the input is strictly deeper in the output.
C5_NestingPreserved ==
    step = "indent" =>
        \A i, j \in NonBlank(InLines) :
            Lead(InLines[i]) > Lead(InLines[j])
                => Lead(OutLines[i]) > Lead(OutLines[j])

-----------------------------------------------------------------------------
(* Specification of re-quoting                                             *)

QuoteChars == {"'", "\"", "\\", "a"}

QuoteInit ==
    /\ CaseIdle
    /\ StyleIdle
    /\ ProfileIdle
    /\ AnalysisIdle
    /\ ServiceIdle
    /\ RenderIdle

\* one more character of the code to re-quote
TypeChar(c) ==
    /\ step = "none"
    /\ Len(code) < MaxQuoteLen
    /\ code' = Append(code, c)
    /\ UNCHANGED <<caseVars, profileVars, renderVars, analysisVars,
                   serviceVars, style, step, formatted, reformatted>>

ApplyQuoteStyle(quote_style) ==
    /\ step = "none"
    /\ style' = [style EXCEPT !.quote_style = quote_style]
    /\ formatted' = _apply_quote_style(code, quote_style)
    /\ step' = "quote"
    /\ UNCHANGED <<caseVars, profileVars, renderVars, analysisVars,
                   serviceVars, code, reformatted>>

QuoteNext ==
    \/ \E c \in QuoteChars : TypeChar(c)
    \/ \E q \in QuoteStyles : ApplyQuoteStyle(q)

SpecQuote == QuoteInit /\ [][QuoteNext]_vars

\* what the body of a string literal denotes: \' \" and \\ stand for the
\* character after the backslash
RECURSIVE Unescape(_, _)
Unescape(body, i) ==
    IF i > Len(body) THEN << >>
    ELSE IF /\ body[i] = "\\"
            /\ i + 1 <= Len(body)
            /\ body[i + 1] \in {"'", "\"", "\\"}
         THEN <<body[i + 1]>> \o Unescape(body, i + 2)
         ELSE <<body[i]>> \o Unescape(body, i + 1)

\* a text read as a lexer reads it: plain characters and string literals
\* (a quote character inside a literal does not start a literal); an
\* unterminated literal ends the reading with an "open" item
RECURSIVE Lex(_, _)
Lex(s, i) ==
    IF i > Len(s) THEN << >>
    ELSE IF s[i] \in {"'", "\""}
         THEN LET e == LiteralEnd(s, i + 1, s[i])
              IN  IF e = 0 THEN <<[kind |-> "open", delim |-> s[i], text |-> << >>]>>
                  ELSE <<[kind |-> "lit", delim |-> s[i],
                          text |-> Unescape(Slice(s, i + 1, e - 1), 1)]>>
                       \o Lex(s, e + 1)
         ELSE <<[kind |-> "chr", delim |-> "", text |-> <<s[i]>>]>>
              \o Lex(s, i + 1)

WellFormed(items) == \A k \in 1..Len(items) : items[k].kind # "open"

Requoted(items, q) ==
    [k \in 1..Len(items) |->
        IF items[k].kind = "lit" THEN [items[k] EXCEPT !.delim = q]
        ELSE items[k]]

\* C6: after _apply_quote_style with style q every string literal of the
\* input is delimited by q's character and denotes the same content, and
\* nothing else of the text changes.
C6_LiteralsRequoted ==
    (step = "quote" /\ WellFormed(Lex(code, 1)))
        => Lex(formatted, 1)
             = Requoted(Lex(code, 1), QuoteChar(style.quote_style))

-----------------------------------------------------------------------------
(* Specification of re-casing                                              *)

\* the words the code is spelled from, and what may follow a word
CodeWords == {ClassKeyword, <<"F", "o">>, <<"a", "B">>, <<"A", "B", "C", "d">>}
WordSeparators == {<<" ">>, <<"(">>, <<":">>}

NamingInit ==
    /\ CaseIdle
    /\ StyleIdle
    /\ ProfileIdle
    /\ AnalysisIdle
    /\ ServiceIdle
    /\ RenderIdle

\* one more word of the code to re-case, and the character after it
TypeWord(w, sep) ==
    /\ step = "none"
    /\ Len(WordSpans(code, 1)) < MaxWords
    /\ code' = code \o w \o sep
    /\ UNCHANGED <<caseVars, profileVars, renderVars, analysisVars,
                   serviceVars, style, step, formatted, reformatted>>

ApplyNamingConvention(convention) ==
    /\ step = "none"
    /\ style' = [style EXCEPT !.naming_style = convention]
    /\ formatted' = _apply_naming_convention(code, convention)
    /\ step' = "naming"
    /\ UNCHANGED <<caseVars, profileVars, renderVars, analysisVars,
                   serviceVars, code, reformatted>>

NamingNext ==
    \/ \E w \in CodeWords, sep \in WordSeparators : TypeWord(w, sep)
    \/ \E convention \in Conventions : ApplyNamingConvention(convention)

SpecNaming == NamingInit /\ [][NamingNext]_vars

IsPascalName(n) ==
    /\ n # << >>
    /\ n[1] \in Upper
    /\ \E k \in 2..Len(n) : n[k] \in Lower

\* the PascalCase names the text declares after the class keyword
DeclaredClasses(s) ==
    LET spans == WordSpans(s, 1)
    IN  {WordAt(s, spans[k + 1]) : k \in
            {k \in 1..(Len(spans) - 1) :
                /\ WordAt(s, spans[k]) = ClassKeyword
                /\ \A p \in (spans[k][2] + 1)..(spans[k + 1][1] - 1) :
                      s[p] \in Space
                /\ IsPascalName(WordAt(s, spans[k + 1]))}}

\* C7: re-casing leaves a declared PascalCase class name untouched, at its
\* declaration and at every reference.
C7_ClassNamesKept ==
    step = "naming" =>
        LET inSpans == WordSpans(code, 1)
            outSpans == WordSpans(formatted, 1)
        IN  /\ Len(outSpans) = Len(inSpans)
            /\ \A k \in 1..Len(inSpans) :
                  WordAt(code, inSpans[k]) \in DeclaredClasses(code)
                      => WordAt(formatted, outSpans[k]) = WordAt(code, inSpans[k])

\* C11: applying snake_case or camelCase converts every identifier of the
\* text that is not a PascalCase (class) name to that convention, the names
\* directly followed by '(' included.
C11_EveryIdentifierConverted ==
    (step = "naming" /\ style.naming_style \in {"snake_case", "camelCase"}) =>
        LET inSpans == WordSpans(code, 1)
            outSpans == WordSpans(formatted, 1)
        IN  /\ Len(outSpans) = Len(inSpans)
            /\ \A k \in 1..Len(inSpans) :
                  ~IsPascalName(WordAt(code, inSpans[k]))
                      => WordAt(formatted, outSpans[k])
                           = Convert(style.naming_style,
                                     WordAt(code, inSpans[k]))

-----------------------------------------------------------------------------
(* Specification of the Style Applier as a whole                           *)

\* what the code handed to the applier is spelled from: a word, a camelCase
\* word, a line break, one 4-space indent, a string literal
ApplyPieces ==
    {<<"a">>, <<"a", "B">>, <<"\n">>, Spaces(AssumedUnit), <<"'", "a", "'">>}

Profiles ==
    [indent_size : 1..MaxIndentSize, quote_style : QuoteStyles,
     naming_style : Conventions]

ApplyInit ==
    /\ CaseIdle
    /\ StyleIdle
    /\ ProfileIdle
    /\ AnalysisIdle
    /\ ServiceIdle
    /\ RenderIdle

TypePiece(p) ==
    /\ step = "none"
    /\ Len(code) + Len(p) <= MaxApplyLen
    /\ code' = code \o p
    /\ UNCHANGED <<caseVars, profileVars, renderVars, analysisVars,
                   serviceVars, style, step, formatted, reformatted>>

\* preserve_style lines 45-54 on the formatter's output, with profile st
ApplySteps(st) ==
    /\ step = "none"
    /\ style' = st
    /\ formatted' = ApplyStyle(code, st)
    /\ step' = "applied"
    /\ UNCHANGED <<caseVars, profileVars, renderVars, analysisVars,
                   serviceVars, code, reformatted>>

\* the same steps, with the same profile, on the text they returned
ReapplySteps ==
    /\ step = "applied"
    /\ reformatted' = ApplyStyle(formatted, style)
    /\ step' = "reapplied"
    /\ UNCHANGED <<caseVars, profileVars, renderVars, analysisVars,
                   serviceVars, code, style, formatted>>

ApplyNext ==
    \/ \E p \in ApplyPieces : TypePiece(p)
    \/ \E st \in Profiles : ApplySteps(st)
    \/ ReapplySteps

SpecApply == ApplyInit /\ [][ApplyNext]_vars

\* C1: the Style Applier is idempotent: apply(apply(t, p), p) = apply(t, p).
C1_ApplyIdempotent ==
    step = "reapplied" => reformatted = formatted

-----------------------------------------------------------------------------
(* Specification of the profile handed to the Style Applier:               *)
(* style_handler.py, StyleHandler.__init__ and preserve_style              *)

ConfigFields == {"indent_size", "quote_style", "naming_convention"}

\* the key of source_style that a StyleConfig field overrides
StyleKey(f) == IF f = "naming_convention" THEN "naming_style" ELSE f

\* the values a caller sets fields to
CallerConfigs ==
    [indent_size : {2, DefaultIndentSize}, quote_style : QuoteStyles,
     naming_convention : Conventions]

\* StyleConfig(**kwargs): the fields not set take the dataclass defaults
StyleConfig(set, values) ==
    [f \in DOMAIN DefaultConfig |->
        IF f \in set THEN values[f] ELSE DefaultConfig[f]]

\* bool(self.config): a dataclass instance defines neither __bool__ nor
\* __len__, so it is always true
Truthy(cfg) == TRUE

SourceBodies ==
    {<<"a", "_", "b">>, <<"a", "B">>, <<"'", "a", "'">>, <<"\"", "a", "\"">>}
SourceLines ==
    {Spaces(k) \o b : k \in 0..MaxSourceLead, b \in SourceBodies}

\* the output of _format_code that the applier steps run on
TargetCodes ==
    {<<"a", "B">>, <<"a", "\n">> \o Spaces(AssumedUnit) \o <<"'", "b", "'">>}

ProfileInit ==
    /\ CaseIdle
    /\ StyleIdle
    /\ ProfileIdle
    /\ AnalysisIdle
    /\ ServiceIdle
    /\ RenderIdle

\* one more line of the source text
TypeSourceLine(line) ==
    /\ config = NoConfig
    /\ source_code = << >> \/ LineCount(source_code) < MaxSourceLines
    /\ source_code' = IF source_code = << >> THEN line
                      ELSE source_code \o <<"\n">> \o line
    /\ UNCHANGED <<given, config, caseVars, styleVars, renderVars,
                   analysisVars, serviceVars>>

\* StyleHandler(): self.config = config or StyleConfig()
NewDefaultHandler ==
    /\ config = NoConfig
    /\ given' = [passed |-> FALSE, set |-> {}]
    /\ config' = DefaultConfig
    /\ UNCHANGED <<source_code, caseVars, styleVars, renderVars,
                   analysisVars, serviceVars>>

\* StyleHandler(StyleConfig(...)) with the fields of set given by the caller
NewHandler(set, values) ==
    /\ config = NoConfig
    /\ given' = [passed |-> TRUE, set |-> set]
    /\ config' = StyleConfig(set, values)
    /\ UNCHANGED <<source_code, caseVars, styleVars, renderVars,
                   analysisVars, serviceVars>>

\* source_style after lines 34-40
SourceStyle(src, cfg) ==
    LET source_style == _extract_style_characteristics(src, cfg)
    IN  IF Truthy(cfg)
        THEN [indent_size |-> cfg.indent_size,
              quote_style |-> cfg.quote_style,
              naming_style |-> cfg.naming_convention]
        ELSE source_style

PreserveStyle(target_code) ==
    /\ config # NoConfig
    /\ step = "none"
    /\ code' = target_code
    /\ style' = SourceStyle(source_code, config)
    /\ formatted' = ApplyStyle(target_code, style')
    /\ step' = "applied"
    /\ UNCHANGED <<reformatted, profileVars, caseVars, renderVars,
                   analysisVars, serviceVars>>

ProfileNext ==
    \/ \E line \in SourceLines : TypeSourceLine(line)
    \/ NewDefaultHandler
    \/ \E set \in SUBSET ConfigFields, values \in CallerConfigs :
          NewHandler(set, values)
    \/ \E target_code \in TargetCodes : PreserveStyle(target_code)

SpecProfile == ProfileInit /\ [][ProfileNext]_vars

\* C10: the profile handed to the applier takes a field from the caller's
\* StyleConfig only when the caller set that field, and from the value
\* detected from the source text otherwise.
C10_ProfileFieldByField ==
    step = "applied" =>
        \A f \in ConfigFields :
            style[StyleKey(f)] =
                IF given.passed /\ f \in given.set THEN config[f]
                ELSE _extract_style_characteristics(source_code,
                                                    config)[StyleKey(f)]

-----------------------------------------------------------------------------
(* Specification of translation: _rule_based_translate, line by line, and  *)
(* translate_structure                                                     *)

Langs == {"python", "javascript", "java"}

\* the statements the Python source is made of
ClassStmt  == <<"class ", "A", ":">>
InitStmt   == <<"def __init__", "(", "self, ", "x", ")", ":">>
IterStmt   == <<"def __iter__", "(", "self", ")", ":">>
NextStmt   == <<"def __next__", "(", "self", ")", ":">>
DefStmt    == <<"def ", "get", "(", "self", ")", ":">>
ReturnStmt == <<"return ", "self.", "x">>
SelfStmt   == <<"self.", "x", " = ", "x">>
RaiseStmt  == <<"raise StopIteration">>
IfStmt     == <<"if ", "self.", "x", ":">>
OtherStmt  == <<"x", " = ", "1">>
BlankLine  == << >>

Statements ==
    {ClassStmt, InitStmt, IterStmt, NextStmt, DefStmt, ReturnStmt, SelfStmt,
     RaiseStmt, IfStmt, OtherStmt, BlankLine}

\* a compound-statement header: the next statement is its indented body
IsHeader(stripped) == stripped # << >> /\ stripped[Len(stripped)] = ":"

\* the last statement of the source typed so far, << >> if none
LastStatement ==
    LET idx == {i \in 1..Len(py_lines) : py_lines[i].stripped # << >>}
    IN  IF idx = {} THEN [indent |-> 0, stripped |-> << >>]
        ELSE py_lines[CHOOSE i \in idx : \A j \in idx : j <= i]

TranslateInit ==
    /\ CaseIdle
    /\ StyleIdle
    /\ ProfileIdle
    /\ AnalysisIdle
    /\ ServiceIdle
    /\ RenderIdle

\* one more line of the Python source; the indentation follows Python's
\* block structure
TypeStatement(stripped, depth) ==
    /\ pc = "idle"
    /\ module_info = EmptyModule
    /\ Len(py_lines) < MaxSrcLines
    /\ IF stripped = << >> THEN depth = 0
       ELSE IF LastStatement.stripped = << >> THEN depth = 0
       ELSE IF IsHeader(LastStatement.stripped)
            THEN depth * IndentUnit = LastStatement.indent + IndentUnit
       ELSE depth * IndentUnit <= LastStatement.indent
    /\ py_lines' = Append(py_lines, [indent |-> depth * IndentUnit,
                                     stripped |-> stripped])
    /\ UNCHANGED <<source_lang, target_lang, pos, indent_level, js_lines, pc,
                   call, outcome, module_info, result>>
    /\ UNCHANGED <<caseVars, styleVars, profileVars, analysisVars,
                   serviceVars>>

\* _rule_based_translate(source_code, source_lang, target_lang), up to the
\* loop over the lines, or to the return or raise of the other branches
CallRuleBased(src, tgt) ==
    /\ pc = "idle"
    /\ module_info = EmptyModule
    /\ LastStatement.stripped # << >>
    /\ ~IsHeader(LastStatement.stripped)
    /\ source_lang' = src
    /\ target_lang' = tgt
    /\ call' = "rule_based"
    /\ IF src = "python" /\ tgt = "javascript"
       THEN /\ pc' = "lines"
            /\ pos' = 1
            /\ indent_level' = 0
            /\ js_lines' = << >>
            /\ UNCHANGED outcome
       ELSE IF src = "javascript" /\ tgt = "python"
       THEN /\ pc' = "done"
            /\ outcome' = [kind |-> "placeholder", src |-> src, tgt |-> tgt]
            /\ UNCHANGED <<pos, indent_level, js_lines>>
       ELSE /\ pc' = "done"
            /\ outcome' = [kind |-> "error", src |-> src, tgt |-> tgt]
            /\ UNCHANGED <<pos, indent_level, js_lines>>
    /\ UNCHANGED <<py_lines, module_info, result>>
    /\ UNCHANGED <<caseVars, styleVars, profileVars, analysisVars,
                   serviceVars>>

AtLine == pc = "lines" /\ pos <= Len(py_lines)

\* lines 438-440
SkipBlank ==
    /\ AtLine
    /\ py_lines[pos].stripped = << >>
    /\ js_lines' = Append(js_lines, JsLine(0, << >>))
    /\ pos' = pos + 1
    /\ UNCHANGED <<source_lang, target_lang, py_lines, indent_level, pc, call,
                   outcome, module_info, result>>
    /\ UNCHANGED <<caseVars, styleVars, profileVars, analysisVars,
                   serviceVars>>

\* one iteration of the loop of lines 446-448
Dedent ==
    /\ AtLine
    /\ py_lines[pos].stripped # << >>
    /\ py_lines[pos].indent < indent_level
    /\ indent_level' = indent_level - IndentUnit
    /\ js_lines' = Append(js_lines, JsLine(indent_level' \div IndentUnit,
                                           <<"}">>))
    /\ UNCHANGED <<source_lang, target_lang, py_lines, pos, pc, call, outcome,
                   module_info, result>>
    /\ UNCHANGED <<caseVars, styleVars, profileVars, analysisVars,
                   serviceVars>>

\* lines 450-499
EmitLine ==
    /\ AtLine
    /\ py_lines[pos].stripped # << >>
    /\ ~(py_lines[pos].indent < indent_level)
    /\ js_lines' = js_lines \o Rendered(py_lines[pos].stripped,
                                        indent_level \div IndentUnit)
    /\ indent_level' = IF OpensBlock(py_lines[pos].stripped)
                       THEN indent_level + IndentUnit
                       ELSE indent_level
    /\ pos' = pos + 1
    /\ UNCHANGED <<source_lang, target_lang, py_lines, pc, call, outcome,
                   module_info, result>>
    /\ UNCHANGED <<caseVars, styleVars, profileVars, analysisVars,
                   serviceVars>>

EndOfLines ==
    /\ pc = "lines"
    /\ pos > Len(py_lines)
    /\ pc' = "final"
    /\ UNCHANGED <<source_lang, target_lang, py_lines, pos, indent_level,
                   js_lines, call, outcome, module_info, result>>
    /\ UNCHANGED <<caseVars, styleVars, profileVars, analysisVars,
                   serviceVars>>

\* one iteration of the loop of lines 502-504
FinalDedent ==
    /\ pc = "final"
    /\ indent_level > 0
    /\ indent_level' = indent_level - IndentUnit
    /\ js_lines' = Append(js_lines, JsLine(indent_level' \div IndentUnit,
                                           <<"}">>))
    /\ UNCHANGED <<source_lang, target_lang, py_lines, pos, pc, call, outcome,
                   module_info, result>>
    /\ UNCHANGED <<caseVars, styleVars, profileVars, analysisVars,
                   serviceVars>>

\* line 506
ReturnJoined ==
    /\ pc = "final"
    /\ ~(indent_level > 0)
    /\ pc' = "done"
    /\ outcome' = [kind |-> "text", src |-> source_lang, tgt |-> target_lang]
    /\ UNCHANGED <<source_lang, target_lang, py_lines, pos, indent_level,
                   js_lines, call, module_info, result>>
    /\ UNCHANGED <<caseVars, styleVars, profileVars, analysisVars,
                   serviceVars>>

ClassNames == {"A", "B"}
BaseLists == {<< >>, <<"Base">>}
Docstrings == {<< >>, <<"doc">>}
MethodNames == {"__init__", "get"}
ArgLists == {<< >>, <<"x">>}
Bodies == {<< >>, <<SelfStmt>>}
FunctionBodies == {<<(<<"pass">>)>>, <<(<<"return ", "x">>)>>}

NamesOf(items) == {items[k].name : k \in 1..Len(items)}

\* the ModuleInfo gets a module-level function (the dict of _analyze_function)
AddFunction(args, body) ==
    /\ pc = "idle"
    /\ py_lines = << >>
    /\ module_info.classes = << >>
    /\ Len(module_info.functions) < MaxFunctions
    /\ "f" \notin NamesOf(module_info.functions)
    /\ module_info' = [module_info EXCEPT !.functions =
           Append(@, [name |-> "f", args |-> args, docstring |-> << >>,
                      body |-> body])]
    /\ UNCHANGED <<source_lang, target_lang, py_lines, pos, indent_level,
                   js_lines, pc, call, outcome, result>>
    /\ UNCHANGED <<caseVars, styleVars, profileVars, analysisVars,
                   serviceVars>>

\* the ModuleInfo gets a class (a ClassInfo without methods)
AddClass(class_name, bases, docstring) ==
    /\ pc = "idle"
    /\ py_lines = << >>
    /\ Len(module_info.classes) < MaxClasses
    /\ class_name \notin NamesOf(module_info.classes)
    /\ module_info' = [module_info EXCEPT !.classes =
           Append(@, [name |-> class_name, bases |-> bases,
                      docstring |-> docstring, methods |-> << >>])]
    /\ UNCHANGED <<source_lang, target_lang, py_lines, pos, indent_level,
                   js_lines, pc, call, outcome, result>>
    /\ UNCHANGED <<caseVars, styleVars, profileVars, analysisVars,
                   serviceVars>>

\* the last class of the ModuleInfo gets a method (a MethodInfo)
AddMethod(method_name, args, body) ==
    /\ pc = "idle"
    /\ module_info.classes # << >>
    /\ LET c == Len(module_info.classes)
       IN  /\ Len(module_info.classes[c].methods) < MaxMethods
           /\ method_name \notin NamesOf(module_info.classes[c].methods)
           /\ module_info' = [module_info EXCEPT !.classes[c].methods =
                  Append(@, [name |-> method_name, args |-> args,
                             docstring |-> << >>, body |-> body])]
    /\ UNCHANGED <<source_lang, target_lang, py_lines, pos, indent_level,
                   js_lines, pc, call, outcome, result>>
    /\ UNCHANGED <<caseVars, styleVars, profileVars, analysisVars,
                   serviceVars>>

\* translate_structure(module_info, source_lang, target_lang): it has no
\* branch that raises
CallStructure(src, tgt) ==
    /\ pc = "idle"
    /\ py_lines = << >>
    /\ source_lang' = src
    /\ target_lang' = tgt
    /\ call' = "structure"
    /\ result' = translate_structure(module_info, tgt)
    /\ outcome' = [kind |-> "text", src |-> src, tgt |-> tgt]
    /\ pc' = "done"
    /\ UNCHANGED <<py_lines, pos, indent_level, js_lines, module_info>>
    /\ UNCHANGED <<caseVars, styleVars, profileVars, analysisVars,
                   serviceVars>>

TranslateNext ==
    \/ \E stripped \in Statements, depth \in 0..MaxDepth :
          TypeStatement(stripped, depth)
    \/ \E src \in Langs, tgt \in Langs : CallRuleBased(src, tgt)
    \/ SkipBlank
    \/ Dedent
    \/ EmitLine
    \/ EndOfLines
    \/ FinalDedent
    \/ ReturnJoined
    \/ \E args \in ArgLists, body \in FunctionBodies : AddFunction(args, body)
    \/ \E class_name \in ClassNames, bases \in BaseLists,
          docstring \in Docstrings : AddClass(class_name, bases, docstring)
    \/ \E method_name \in MethodNames, args \in ArgLists, body \in Bodies :
          AddMethod(method_name, args, body)
    \/ \E src \in Langs, tgt \in Langs : CallStructure(src, tgt)

SpecTranslate == TranslateInit /\ [][TranslateNext]_vars

\* the language pairs the called operation has rewrite rules for
RewriteRules ==
    IF call = "rule_based" THEN {<<"python", "javascript">>}
    ELSE {"python", "javascript"} \X {"python", "javascript"}

\* C2: a call for a language pair without rewrite rules fails with an
\* error that names both languages; it never returns text or a placeholder.
C2_UnsupportedPairFails ==
    (pc = "done" /\ <<source_lang, target_lang>> \notin RewriteRules)
        => /\ outcome.kind = "error"
           /\ outcome.src = source_lang
           /\ outcome.tgt = target_lang

RECURSIVE CountInLines(_, _)
CountInLines(ls, t) ==
    IF ls = << >> THEN 0
    ELSE CountTok(Head(ls), t) + CountInLines(Tail(ls), t)

\* the text the finished call returned, as lines of tokens
Returned ==
    IF call = "rule_based" THEN [k \in 1..Len(js_lines) |-> js_lines[k].toks]
    ELSE result

\* C3: in every rendered JavaScript output the number of '{' equals the
\* number of '}'.
C3_BracesBalanced ==
    (pc = "done" /\ outcome.kind = "text" /\ target_lang = "javascript")
        => CountInLines(Returned, "{") = CountInLines(Returned, "}")

\* the line that opens class c in text of the target language
ClassHeader(c, tgt) ==
    <<"class ", c.name>>
    \o (IF c.bases = << >> THEN << >>
        ELSE IF tgt = "javascript" THEN <<" extends ">> \o JoinTok(", ", c.bases)
        ELSE <<"(">> \o JoinTok(", ", c.bases) \o <<")">>)
    \o (IF tgt = "javascript" THEN <<" ", "{">> ELSE <<":">>)

\* C14: a class with zero methods renders to a valid empty class: in
\* JavaScript its header is followed by the closing brace, in Python by a
\* non-empty indented body.
C14_EmptyClassValid ==
    (pc = "done" /\ call = "structure"
       /\ target_lang \in {"python", "javascript"}) =>
        \A i \in 1..Len(module_info.classes) :
            module_info.classes[i].methods = << >> =>
                \E k \in 1..(Len(result) - 1) :
                    /\ result[k] = ClassHeader(module_info.classes[i],
                                               target_lang)
                    /\ IF target_lang = "javascript"
                       THEN result[k + 1] = <<"}">>
                       ELSE /\ Len(result[k + 1]) > 1
                            /\ Head(result[k + 1]) = "    "

-----------------------------------------------------------------------------
(* Specification of the one-class scenario: a class with a constructor     *)
(* that stores its argument in a field, and a method returning the field   *)

ClassLine(c) == <<"class ", c, ":">>
InitLine(a) == <<"def __init__", "(", "self, ", a, ")", ":">>
StoreLine(f, a) == <<"self.", f, " = ", a>>
MethodLine(m) == <<"def ", m, "(", "self", ")", ":">>
ReturnLine(f) == <<"return ", "self.", f>>

SourceLine(depth, stripped) ==
    [indent |-> depth * IndentUnit, stripped |-> stripped]

\* the source text, with or without an empty line between the two methods
ScenarioSource(c, a, f, m, blank) ==
    <<SourceLine(0, ClassLine(c)), SourceLine(1, InitLine(a)),
      SourceLine(2, StoreLine(f, a))>>
    \o (IF blank THEN <<SourceLine(0, BlankLine)>> ELSE << >>)
    \o <<SourceLine(1, MethodLine(m)), SourceLine(2, ReturnLine(f))>>

\* the ModuleInfo of that source: _analyze_method drops self and keeps the
\* stripped lines of the body
ScenarioModule(c, a, f, m) ==
    [imports |-> NoImports,
     functions |-> << >>,
     classes |-> <<[name |-> c, bases |-> << >>, docstring |-> << >>,
                    methods |-> <<[name |-> "__init__", args |-> <<a>>,
                                   docstring |-> << >>,
                                   body |-> <<StoreLine(f, a)>>],
                                  [name |-> m, args |-> << >>,
                                   docstring |-> << >>,
                                   body |-> <<ReturnLine(f)>>]>>]>>,
     globals |-> << >>]

ScenarioClasses == {"A", "Person"}
ScenarioArgs == {"x", "name"}
ScenarioFields == {"x", "v"}
ScenarioMethods == {"get", "size"}

ScenarioInit ==
    /\ CaseIdle
    /\ StyleIdle
    /\ ProfileIdle
    /\ AnalysisIdle
    /\ ServiceIdle
    /\ source_lang = "none"
    /\ target_lang = "none"
    /\ pos = 0
    /\ indent_level = 0
    /\ js_lines = << >>
    /\ pc = "idle"
    /\ call = "none"
    /\ outcome = NoOutcome
    /\ result = << >>
    /\ \E c \in ScenarioClasses, a \in ScenarioArgs, f \in ScenarioFields,
          m \in ScenarioMethods, blank \in BOOLEAN :
          \/ /\ py_lines = ScenarioSource(c, a, f, m, blank)
             /\ module_info = EmptyModule
          \/ /\ py_lines = << >>
             /\ module_info = ScenarioModule(c, a, f, m)

ScenarioNext ==
    \/ CallRuleBased("python", "javascript")
    \/ SkipBlank
    \/ Dedent
    \/ EmitLine
    \/ EndOfLines
    \/ FinalDedent
    \/ ReturnJoined
    \/ CallStructure("python", "javascript")

SpecScenario == ScenarioInit /\ [][ScenarioNext]_vars

\* the names the scenario's source is written with
ScenarioClass ==
    IF call = "rule_based" THEN py_lines[1].stripped[2]
    ELSE module_info.classes[1].name
ScenarioArg ==
    IF call = "rule_based" THEN py_lines[2].stripped[4]
    ELSE module_info.classes[1].methods[1].args[1]
ScenarioField ==
    IF call = "rule_based" THEN py_lines[3].stripped[2]
    ELSE module_info.classes[1].methods[1].body[1][2]

\* leading indentation tokens are not part of a line's statement
Statement(line) == SelectSeq(line, LAMBDA t : t # "    ")

HasLine(ls, toks) == \E k \in 1..Len(ls) : Statement(ls[k]) = toks

-----------------------------------------------------------------------------
(* Specification of token substitution: translate_syntax applied to one    *)
(* statement                                                               *)

\* decimal integer literals
LiteralDigits == {"0", "1"}
RECURSIVE DigitStrings(_)
DigitStrings(n) ==
    IF n = 0 THEN {<< >>}
    ELSE {Append(d, c) : d \in DigitStrings(n - 1), c \in LiteralDigits}
DecimalLiterals == UNION {DigitStrings(n) : n \in 1..MaxDigits}

\* for i in range(n): result.append(i * k)
Loop(n, k) ==
    <<"f", "o", "r", " ", "i", " ", "i", "n", " ", "r", "a", "n", "g", "e",
      "(">>
    \o n
    \o <<")", ":", " ", "r", "e", "s", "u", "l", "t", ".", "a", "p", "p", "e",
      "n", "d", "(", "i", " ", "*", " ">>
    \o k \o <<")">>

\* [e for x in xs] and [e for x in xs if c]
Comprehension(filtered) ==
    <<"[", "e", " ", "f", "o", "r", " ", "x", " ", "i", "n", " ", "x", "s">>
    \o (IF filtered THEN <<" ", "i", "f", " ", "c">> ELSE << >>)
    \o <<"]">>

\* other expressions the two tables have rules for
Calls ==
    {<<"l", "e", "n", "(", "x", "s", ")">>,
     <<"x", "s", ".", "k", "e", "y", "s", "(", ")">>,
     <<"s", ".", "s", "t", "r", "i", "p", "(", ")">>,
     <<"r", "a", "n", "g", "e", "(", "1", ",", " ", "5", ")">>,
     <<"[", "x", " ", "f", "o", "r", " ", "x", " ", "i", "n", " ", "r", "a",
       "n", "g", "e", "(", "5", ")", "]">>,
     <<"x", "s", ".", "p", "u", "s", "h", "(", "x", ")">>,
     <<"x", "s", ".", "l", "e", "n", "g", "t", "h">>,
     <<"s", ".", "t", "r", "i", "m", "(", ")">>}

SyntaxInputs ==
    {Loop(n, k) : n \in DecimalLiterals, k \in DecimalLiterals}
    \cup {Comprehension(filtered) : filtered \in BOOLEAN}
    \cup Calls

SyntaxInit ==
    /\ CaseIdle
    /\ code \in SyntaxInputs
    /\ style = NoStyle
    /\ step = "none"
    /\ formatted = << >>
    /\ reformatted = << >>
    /\ ProfileIdle
    /\ AnalysisIdle
    /\ ServiceIdle
    /\ RenderIdle

\* CodeCleaner().translate_syntax(code, source_lang)
TranslateSyntax(lang) ==
    /\ pc = "idle"
    /\ source_lang' = lang
    /\ translated' = translate_syntax(code, lang)
    /\ pc' = "done"
    /\ UNCHANGED <<target_lang, py_lines, pos, indent_level, js_lines, call,
                   outcome, module_info, result, tree, env>>
    /\ UNCHANGED <<caseVars, styleVars, profileVars, serviceVars>>

SyntaxNext == \E lang \in {"python", "javascript"} : TranslateSyntax(lang)

SpecSyntax == SyntaxInit /\ [][SyntaxNext]_vars

\* for i in Array.from({length: n}, (_, i) => i): result.push(i * k)
ArrayLoop(n, k) ==
    <<"f", "o", "r", " ", "i", " ", "i", "n", " ", "A", "r", "r", "a", "y",
      ".", "f", "r", "o", "m", "(", "{", "l", "e", "n", "g", "t", "h", ":",
      " ">>
    \o n
    \o <<"}", ",", " ", "(", "_", ",", " ", "i", ")", " ", "=", ">", " ", "i",
      ")", ":", " ", "r", "e", "s", "u", "l", "t", ".", "p", "u", "s", "h",
      "(", "i", " ", "*", " ">>
    \o k \o <<")">>

FilterThenMap ==
    <<"x", "s", ".", "f", "i", "l", "t", "e", "r", "(", "x", " ", "=", ">",
      " ", "c", ")", ".", "m", "a", "p", "(", "x", " ", "=", ">", " ", "e",
      ")">>

\* C18: the filtered-comprehension rule is applied before the plain one, so
\* [e for x in xs if c] is rewritten to the filter-then-map form.
C18_SpecificRuleFirst ==
    (pc = "done" /\ source_lang = "python" /\ code = Comprehension(TRUE))
        => translated = FilterThenMap

-----------------------------------------------------------------------------
(* Specification of analysis followed by rendering: analyze_module on a    *)
(* parsed Python source, then translate_structure                          *)

\* the statements a source is written from
SourceNodes ==
    {Import(<<"os">>),
     ImportFrom(<<"os", "path">>, "join"),
     FunctionDef("f", <<"a", "b">>, <<Stmt(<<"return ", "a">>)>>),
     FunctionDef("g", << >>, <<Stmt(<<"pass">>)>>),
     AsyncFunctionDef("h", <<"a">>, <<Stmt(<<"return ", "a">>)>>),
     ClassDef("A", <<Stmt(<<"pass">>)>>),
     ClassDef("B", <<FunctionDef("__init__", <<"self", "x">>,
                                 <<Stmt(SelfStmt)>>),
                     FunctionDef("m", <<"self", "a", "b">>,
                                 <<Stmt(<<"return ", "a">>)>>)>>),
     Stmt(OtherStmt)}

\* a host whose only built-in module is os
PlainHost == [stdlib |-> {"os"}, known_packages |-> {}, files |-> {}]

AnalyzeInit ==
    /\ CaseIdle
    /\ StyleIdle
    /\ ProfileIdle
    /\ RenderIdle
    /\ translated = << >>
    /\ tree = << >>
    /\ env = PlainHost
    /\ ServiceIdle

\* one more statement at the end of the source
AddNode(node) ==
    /\ pc = "idle"
    /\ call = "none"
    /\ Len(tree) < MaxNodes
    /\ tree' = Append(tree, node)
    /\ UNCHANGED <<translated, env, serviceVars>>
    /\ UNCHANGED <<caseVars, styleVars, profileVars, renderVars>>

\* StructureHandler().analyze_module(code)
AnalyzeModule ==
    /\ pc = "idle"
    /\ call = "none"
    /\ module_info' = analyze_module(tree, env)
    /\ call' = "analyze_module"
    /\ UNCHANGED <<source_lang, target_lang, py_lines, pos, indent_level,
                   js_lines, pc, outcome, result>>
    /\ UNCHANGED <<caseVars, styleVars, profileVars, analysisVars,
                   serviceVars>>

\* translate_structure on the ModuleInfo analyze_module returned
RenderAnalyzed(tgt) ==
    /\ call = "analyze_module"
    /\ CallStructure("python", tgt)

AnalyzeNext ==
    \/ \E node \in SourceNodes : AddNode(node)
    \/ AnalyzeModule
    \/ \E tgt \in {"python", "javascript"} : RenderAnalyzed(tgt)

SpecAnalyze == AnalyzeInit /\ [][AnalyzeNext]_vars

\* the nodes of the source, each with the class of its parent
SourceElements == Walk(tree)

Tokens(ls) == UNION {{ls[k][i] : i \in 1..Len(ls[k])} : k \in 1..Len(ls)}

\* a line of the output holds the statement, as it is or with self. turned
\* into this., whatever indentation and terminator the line has
StatementRendered(text) ==
    \E k \in 1..Len(result) :
        LET st == SelectSeq(Statement(result[k]), LAMBDA t : t # ";")
        IN  st = text \/ st = ReplaceTok(text, "self.", <<"this.">>)

\* C15: every class, method, module-level function (async ones included),
\* module-scope statement and method-body statement of the source appears
\* in the output of analyze_module followed by translate_structure.
C15_NothingDropped ==
    pc = "done" =>
        \A e \in {SourceElements[k] : k \in 1..Len(SourceElements)} :
            LET node == e.node
            IN  /\ node.kind = "ClassDef" => node.name \in Tokens(result)
                /\ node.kind \in {"FunctionDef", "AsyncFunctionDef"} =>
                      \/ node.name \in Tokens(result)
                      \/ /\ node.name = "__init__"
                         /\ "constructor" \in Tokens(result)
                /\ (node.kind = "Stmt" /\ node.text # <<"pass">>
                      /\ e.parent # "ClassDef")
                      => StatementRendered(node.text)

\* the signature line of a module-level function, and of a method
FunctionSignature(node, tgt) ==
    IF tgt = "javascript"
    THEN <<"function ", node.name, "(">> \o JoinTok(", ", node.args)
         \o <<")", " ", "{">>
    ELSE <<"def ", node.name, "(">> \o JoinTok(", ", node.args)
         \o <<")", ":">>

MethodSignature(node, tgt) ==
    LET args == SelectSeq(node.args, LAMBDA a : a # "self")
    IN  IF tgt = "javascript"
        THEN <<(IF node.name = "__init__" THEN "constructor" ELSE node.name),
               "(">> \o JoinTok(", ", args) \o <<")", " ", "{">>
        ELSE <<"def ", node.name, "(">> \o JoinTok(", ", node.args)
             \o <<")", ":">>

\* C16: the signature rendered for every module-level function and every
\* method lists exactly the parameter names of the source, in source order
\* (methods without self in JavaScript).
C16_ArgumentOrderKept ==
    pc = "done" =>
        \A k \in 1..Len(SourceElements) :
            LET node == SourceElements[k].node
            IN  node.kind = "FunctionDef" =>
                    HasLine(result,
                            IF SourceElements[k].parent = "ClassDef"
                            THEN MethodSignature(node, target_lang)
                            ELSE FunctionSignature(node, target_lang))

ImportLines ==
    {k \in 1..Len(result) : result[k] # << >> /\ Head(result[k]) = "import "}

FunctionLines ==
    {k \in 1..Len(result) :
        /\ Len(result[k]) > 1
        /\ result[k][1] = (IF target_lang = "javascript" THEN "function "
                           ELSE "def ")
        /\ \E i \in 1..Len(module_info.functions) :
              result[k][2] = module_info.functions[i].name
        /\ "self" \notin {result[k][i] : i \in 1..Len(result[k])}}

ClassLines ==
    {k \in 1..Len(result) :
        \E i \in 1..Len(module_info.classes) :
            result[k] = ClassHeader(module_info.classes[i], target_lang)}

BlankBetween(a, b) == \E k \in a..b : result[k] = << >>

ImportedModules ==
    LET nodes == SelectSeq(SourceElements,
                           LAMBDA e : e.node.kind \in {"Import", "ImportFrom"})
    IN  [k \in 1..Len(nodes) |-> nodes[k].node.module]

\* C20: the rendered imports block has one import statement per module the
\* source imports, each naming that module; a source without imports
\* renders no import statement.
C20_OneStatementPerImport ==
    pc = "done" =>
        /\ Cardinality(ImportLines) = Len(ImportedModules)
        /\ \A m \in 1..Len(ImportedModules) :
              \E k \in ImportLines :
                  \A i \in 1..Len(ImportedModules[m]) :
                      ImportedModules[m][i]
                          \in {result[k][j] : j \in 1..Len(result[k])}

-----------------------------------------------------------------------------
(* Specification of import classification: analyze_imports on a source of  *)
(* import statements, on a host with its built-in modules, its installed   *)
(* packages and the files of its working directory                         *)

\* the root modules a source may name
Roots == {"os", "np"}

\* sys.stdlib_module_names, self.known_packages and the roots r for which
\* Path(f"{r}.py").exists(), each any set of roots: a root may pass several
\* of the tests
Hosts ==
    [stdlib : SUBSET Roots, known_packages : SUBSET Roots, files : SUBSET Roots]

\* the import statements a source is written from; the last is
\* "from . import x", whose module is None
ImportStatements ==
    {Import(<<"os">>),
     Import(<<"os", "path">>),
     Import(<<"np">>),
     ImportFrom(<<"np", "linalg">>, "x"),
     ImportFrom(<< >>, "x")}

ImportsInit ==
    /\ CaseIdle
    /\ StyleIdle
    /\ ProfileIdle
    /\ RenderIdle
    /\ translated = << >>
    /\ tree = << >>
    /\ env \in Hosts
    /\ ServiceIdle

\* one more import statement at the end of the source
AddImport(node) ==
    /\ call = "none"
    /\ Len(tree) < MaxImports
    /\ tree' = Append(tree, node)
    /\ UNCHANGED <<translated, env, serviceVars>>
    /\ UNCHANGED <<caseVars, styleVars, profileVars, renderVars>>

\* CodeAnalyzer().analyze_imports(code); the dict it returns is kept in
\* module_info.imports
AnalyzeImports ==
    /\ call = "none"
    /\ module_info' = [EmptyModule EXCEPT !.imports = analyze_imports(tree, env)]
    /\ call' = "analyze_imports"
    /\ UNCHANGED <<source_lang, target_lang, py_lines, pos, indent_level,
                   js_lines, pc, outcome, result>>
    /\ UNCHANGED <<caseVars, styleVars, profileVars, analysisVars,
                   serviceVars>>

ImportsNext ==
    \/ \E node \in ImportStatements : AddImport(node)
    \/ AnalyzeImports

SpecImports == ImportsInit /\ [][ImportsNext]_vars

\* the modules the import statements of the source refer to, in order
References == [k \in 1..Len(tree) |-> tree[k].module]

\* the entries of the four lists together
Classified ==
    Flatten([c \in 1..4 |-> module_info.imports[ImportCategories[c]]])

Occurrences(seq, m) == Cardinality({k \in 1..Len(seq) : seq[k] = m})

\* the category of the first test that succeeds, in the order built-in
\* module set, installed packages, same-named local file
FirstTest(module_name) ==
    IF module_name[1] \in env.stdlib THEN "standard_lib"
    ELSE IF module_name[1] \in env.known_packages THEN "third_party"
    ELSE IF module_name[1] \in env.files THEN "local"
    ELSE "unknown"

\* every entry of a list is there by the first test that succeeds, so no
\* module is in two lists
EachInItsCategory ==
    \A c \in 1..4 :
        LET list == module_info.imports[ImportCategories[c]]
        IN  \A k \in 1..Len(list) : FirstTest(list[k]) = ImportCategories[c]

\* the references that name a module are classified, each as many times as
\* the source refers to it, and nothing else is
NamedReferencesClassified ==
    call = "analyze_imports" =>
        /\ EachInItsCategory
        /\ \A m \in {References[k] : k \in 1..Len(References)}
                    \cup {Classified[k] : k \in 1..Len(Classified)} :
              m # << >> => Occurrences(Classified, m) = Occurrences(References, m)

\* a source with a module a second test would also accept, and a module no
\* test accepts, was classified
NamedReferencesWitness ==
    /\ call = "analyze_imports"
    /\ "os" \in env.stdlib \cap env.files
    /\ "np" \notin env.stdlib \cup env.known_packages \cup env.files
    /\ module_info.imports["standard_lib"] = <<<<"os", "path">>>>
    /\ module_info.imports["unknown"] = <<<<"np">>>>

\* C19: import classification partitions the references of the source's
\* import statements: every entry of the four lists is in the list of the
\* first test that succeeds (built-in modules, installed packages,
\* same-named local file, else unknown), and the four lists together hold
\* exactly the references of the import statements, one entry per
\* reference.
C19_ReferencesPartitioned ==
    call = "analyze_imports" =>
        /\ EachInItsCategory
        /\ Len(Classified) = Len(References)
        /\ \A k \in 1..Len(References) :
              Occurrences(Classified, References[k])
                  = Occurrences(References, References[k])

-----------------------------------------------------------------------------
(* Specification of concurrent styled translation: translate_with_style    *)
(* called by several callers on one TransformerTranslator                  *)
(*                                                                         *)
(* A handler is "default", the StyleHandler() of __init__, or the          *)
(* StyleHandler(style_config) a call constructed, known by its caller. The *)
(* statements of translate_with_style that read or write                   *)
(* self.style_handler are steps of their own; translate itself does not    *)
(* touch it.                                                               *)

Callers == 1..MaxCallers

\* the style_config argument: None, or a StyleConfig
StyleArguments == {"None", "config"}

\* the handler objects: None, the StyleHandler() of __init__, and the
\* StyleHandler(style_config) the call of caller c constructed
NoHandler == [made_by |-> "None", caller |-> 0]
InitHandler == [made_by |-> "__init__", caller |-> 0]
CallHandler(c) == [made_by |-> "translate_with_style", caller |-> c]

NoCall == [pc |-> "idle", style_config |-> "None",
           temp_style_handler |-> NoHandler, raised |-> FALSE]

StyledInit ==
    /\ CaseIdle
    /\ StyleIdle
    /\ ProfileIdle
    /\ RenderIdle
    /\ AnalysisIdle
    /\ style_handler = InitHandler
    /\ calls = [c \in Callers |-> NoCall]
    /\ api_keys = << >>
    /\ requests = << >>
    /\ scanner = << >>

StyledUnchanged ==
    UNCHANGED <<caseVars, styleVars, profileVars, renderVars, analysisVars,
                api_keys, requests, scanner>>

\* translate_with_style(..., style_config): temp_style_handler = None and
\* the test of style_config
CallWithStyle(c, style_config) ==
    /\ calls[c].pc = "idle"
    /\ calls' = [calls EXCEPT ![c] =
                    [NoCall EXCEPT !.style_config = style_config,
                                   !.pc = IF style_config # "None"
                                          THEN "save" ELSE "translate"]]
    /\ UNCHANGED style_handler
    /\ StyledUnchanged

\* temp_style_handler = self.style_handler
SaveHandler(c) ==
    /\ calls[c].pc = "save"
    /\ calls' = [calls EXCEPT ![c].temp_style_handler = style_handler,
                              ![c].pc = "install"]
    /\ UNCHANGED style_handler
    /\ StyledUnchanged

\* self.style_handler = StyleHandler(style_config)
InstallHandler(c) ==
    /\ calls[c].pc = "install"
    /\ style_handler' = CallHandler(c)
    /\ calls' = [calls EXCEPT ![c].pc = "translate"]
    /\ StyledUnchanged

\* self.translate(...), which returns or raises
Translate(c, raises) ==
    /\ calls[c].pc = "translate"
    /\ calls' = [calls EXCEPT ![c].raised = raises, ![c].pc = "restore"]
    /\ UNCHANGED style_handler
    /\ StyledUnchanged

\* if temp_style_handler: self.style_handler = temp_style_handler, on
\* either path, then return or raise
RestoreHandler(c) ==
    /\ calls[c].pc = "restore"
    /\ style_handler' = IF calls[c].temp_style_handler # NoHandler
                        THEN calls[c].temp_style_handler
                        ELSE style_handler
    /\ calls' = [calls EXCEPT ![c].pc = "done"]
    /\ StyledUnchanged

StyledNext ==
    \E c \in Callers :
        \/ \E style_config \in StyleArguments : CallWithStyle(c, style_config)
        \/ SaveHandler(c)
        \/ InstallHandler(c)
        \/ \E raises \in BOOLEAN : Translate(c, raises)
        \/ RestoreHandler(c)

SpecStyled == StyledInit /\ [][StyledNext]_vars

\* C21: after any interleaving of concurrent translate_with_style calls
\* on one translator, each returned or raised, the translator's
\* style_handler is the handler it had before the calls, and no call has
\* saved a style handler another call installed.
C21_HandlerRestored ==
    /\ (\A c \in Callers : calls[c].pc = "done") => style_handler = InitHandler
    /\ \A c \in Callers :
          calls[c].temp_style_handler \in {NoHandler, InitHandler}

-----------------------------------------------------------------------------
(* Specification of style detection: _extract_style_characteristics on a   *)
(* source typed line by line, by a handler whose configuration holds the   *)
(* defaults                                                                *)

\* the lines a source is typed from: names of each convention, literals of
\* each delimiter, indented lines, braces on the same and on the next line
DetectLines ==
    {<<"a", "_", "b">>,
     <<"a", "B">>,
     <<"A", "b">>,
     <<"i", "f">>,
     <<"'", "'">>,
     <<"\"", "\"">>,
     <<" ", "1">>,
     <<" ", " ", "1">>,
     <<"\t", "1">>,
     <<")", " ", "{">>,
     <<")">>,
     <<"{">>,
     << >>}

\* the configurations of the handler: StyleConfig() and one with every
\* default set to another value
OtherDefaults ==
    [indent_size |-> 2, max_line_length |-> 100, quote_style |-> "single",
     naming_convention |-> "PascalCase", bracket_style |-> "new_line"]

DetectConfigs == {DefaultConfig, OtherDefaults}

DetectInit ==
    /\ CaseIdle
    /\ StyleIdle
    /\ source_code = << >>
    /\ given = [passed |-> FALSE, set |-> {}]
    /\ config \in DetectConfigs
    /\ RenderIdle
    /\ AnalysisIdle
    /\ ServiceIdle

\* one more line of the source text
TypeDetectLine(line) ==
    /\ step = "none"
    /\ source_code = << >> \/ LineCount(source_code) < MaxDetectLines
    /\ source_code' = IF source_code = << >> THEN line
                      ELSE source_code \o <<"\n">> \o line
    /\ UNCHANGED <<given, config, caseVars, styleVars, renderVars,
                   analysisVars, serviceVars>>

\* chars = self._extract_style_characteristics(source_code)
ExtractStyle ==
    /\ step = "none"
    /\ style' = _extract_style_characteristics(source_code, config)
    /\ step' = "extracted"
    /\ UNCHANGED <<code, formatted, reformatted, profileVars, caseVars,
                   renderVars, analysisVars, serviceVars>>

DetectNext ==
    \/ \E line \in DetectLines : TypeDetectLine(line)
    \/ ExtractStyle

SpecDetect == DetectInit /\ [][DetectNext]_vars

\* the names that vote: not keywords, not starting with '__'
VotingNames ==
    LET all == Names(source_code)
    IN  {k \in DOMAIN all : /\ all[k] \notin keywords
                            /\ ~StartsAt(all[k], 1, <<"_", "_">>)}

\* the vote of a convention: 1 for each of its names, 2 for camelCase
VotesFor(conv) ==
    LET all == Names(source_code)
    IN  (IF conv = "camelCase" THEN 2 ELSE 1)
        * Cardinality({k \in VotingNames : Vote(all[k])[1] = conv})

\* C22: naming-convention detection returns the convention with the
\* strictly largest vote; when the largest vote is tied between
\* conventions, or no identifier is found, it returns the configured
\* default naming_convention.
C22_MajorityOrDefault ==
    step = "extracted" =>
        IF \E conv \in Conventions :
              \A other \in Conventions \ {conv} :
                  VotesFor(conv) > VotesFor(other)
        THEN \A other \in Conventions \ {style.naming_style} :
                VotesFor(style.naming_style) > VotesFor(other)
        ELSE style.naming_style = config.naming_convention

\* C23: quote-style detection returns 'single' when single-delimited
\* literals strictly outnumber double-delimited ones, 'double' when
\* double-delimited ones strictly outnumber single-delimited ones, and the
\* configured default quote_style when the two counts are equal.
C23_QuoteMajorityOrDefault ==
    step = "extracted" =>
        LET single == CountLiterals(source_code, 1, "'")
            double == CountLiterals(source_code, 1, "\"")
        IN  style.quote_style =
                IF single > double THEN "single"
                ELSE IF double > single THEN "double"
                ELSE config.quote_style

\* the leading-space counts of the non-blank, indented lines of the source
PositiveLeads ==
    LET lines == split(source_code, "\n")
        kept == SelectSeq(lines, LAMBDA line : ~IsBlank(line)
                                               /\ Lead(line) > 0)
    IN  [k \in 1..Len(kept) |-> Lead(kept[k])]

\* C24: indent detection returns the most frequent positive leading-space
\* count among the non-blank lines of the source, and the configured
\* default indent_size when no non-blank line is indented; with a positive
\* configured default the detected indent_size is always > 0.
C24_ModalIndent ==
    step = "extracted" =>
        /\ IF PositiveLeads = << >>
           THEN style.indent_size = config.indent_size
           ELSE /\ CountOf(PositiveLeads, style.indent_size) > 0
                /\ \A k \in 1..Len(PositiveLeads) :
                      CountOf(PositiveLeads, PositiveLeads[k])
                          <= CountOf(PositiveLeads, style.indent_size)
        /\ config.indent_size > 0 => style.indent_size > 0

\* a source with lines indented by one and by two, most of them by one, was
\* profiled by a handler whose default is neither
C24_Witness ==
    /\ step = "extracted"
    /\ CountOf(PositiveLeads, 1) = 2
    /\ CountOf(PositiveLeads, 2) = 1
    /\ config.indent_size = DefaultIndentSize
    /\ style.indent_size = 1

\* the close-parens of the source followed, after white space, by an open
\* brace: on the same line, or on a later line
BracesAfterParen(next_line) ==
    {i \in 1..Len(source_code) :
        /\ source_code[i] = ")"
        /\ \E j \in (i + 1)..Len(source_code) :
              /\ source_code[j] = "{"
              /\ \A k \in (i + 1)..(j - 1) : source_code[k] \in Space
              /\ next_line = (\E k \in (i + 1)..(j - 1) :
                                 source_code[k] = "\n")}

\* C26: bracket-style detection returns 'new_line' exactly when the
\* close-parens whose open brace is on the next line strictly outnumber
\* those whose open brace follows on the same line, and 'same_line'
\* otherwise; a source whose braces are all on the next line is detected as
\* 'new_line'.
C26_BracketStyleByCount ==
    step = "extracted" =>
        style.bracket_style =
            IF Cardinality(BracesAfterParen(TRUE))
                   > Cardinality(BracesAfterParen(FALSE))
            THEN "new_line" ELSE "same_line"

-----------------------------------------------------------------------------
(* Specification of line-length detection: _extract_style_characteristics  *)
(* on sources of many lines, short, long and blank                         *)

ShortLine == <<"a">>
LongLine == <<"a", "a", "a">>
\* a line of white space: not empty, and dropped by line.strip()
WhiteLine == <<" ">>

Repeat(line, n) == [k \in 1..n |-> line]

\* the sources: some short lines, some white lines and some long lines, the
\* short ones first or the long ones first
LengthSources ==
    {join(<<"\n">>, lines) :
        lines \in UNION {
            {Repeat(ShortLine, s) \o Repeat(WhiteLine, w) \o Repeat(LongLine, l),
             Repeat(LongLine, l) \o Repeat(WhiteLine, w) \o Repeat(ShortLine, s)} :
            s \in 0..MaxLengthLines, w \in 0..2, l \in 0..2}}

LengthInit ==
    /\ CaseIdle
    /\ StyleIdle
    /\ source_code \in LengthSources
    /\ LineCount(source_code) <= MaxLengthLines
    /\ given = [passed |-> FALSE, set |-> {}]
    /\ config \in DetectConfigs
    /\ RenderIdle
    /\ AnalysisIdle
    /\ ServiceIdle

SpecLength == LengthInit /\ [][ExtractStyle]_vars

\* the lengths of the non-blank lines of the source
Lengths ==
    LET lines == split(source_code, "\n")
        kept == SelectSeq(lines, LAMBDA line : ~IsBlank(line))
    IN  [k \in 1..Len(kept) |-> Len(kept[k])]

\* v is the element at index idx (from 0) of seq sorted ascending
AtSortedIndex(seq, idx, v) ==
    /\ \E k \in 1..Len(seq) : seq[k] = v
    /\ Cardinality({k \in 1..Len(seq) : seq[k] < v}) <= idx
    /\ Cardinality({k \in 1..Len(seq) : seq[k] <= v}) > idx

\* C25: max_line_length detection returns the element at index
\* floor(0.9 * count) of the ascending-sorted lengths of the non-blank
\* lines; that index is within bounds for count >= 1, and the configured
\* default is returned when there is no non-blank line.
C25_NinetiethPercentile ==
    step = "extracted" =>
        LET count == Len(Lengths)
            idx == (9 * count) \div 10
        IN  IF count = 0
            THEN style.max_line_length = config.max_line_length
            ELSE /\ idx < count
                 /\ AtSortedIndex(Lengths, idx, style.max_line_length)

\* a source of eleven non-blank lines, one of them long, was measured: the
\* index is 9 of 0..10, and the long line is left out
C25_Witness ==
    /\ step = "extracted"
    /\ Len(Lengths) = 11
    /\ \E k \in 1..Len(Lengths) : Lengths[k] = Len(LongLine)
    /\ style.max_line_length = Len(ShortLine)

-----------------------------------------------------------------------------
(* Specification of the line scanner: _preprocess_javascript, one line of  *)
(* the JavaScript source per step                                          *)

\* s.rstrip(chars) and s.strip()
rstrip(s, chars) ==
    LET keep == {k \in 1..Len(s) : s[k] \notin chars}
    IN  IF keep = {} THEN << >>
        ELSE Slice(s, 1, CHOOSE k \in keep : \A j \in keep : j <= k)

strip(s) == rstrip(lstrip(s), Space)

\* s.replace(old, new)
RECURSIVE ReplaceFrom(_, _, _, _)
ReplaceFrom(s, i, old, new) ==
    IF i > Len(s) THEN << >>
    ELSE IF StartsAt(s, i, old)
         THEN new \o ReplaceFrom(s, i + Len(old), old, new)
         ELSE <<s[i]>> \o ReplaceFrom(s, i + 1, old, new)

\* re.match(pattern, text) and re.search(pattern, text)
ReMatch(pattern, text) == Match(pattern, 1, text, 1, NoGroups)

ReSearch(pattern, text) ==
    LET starts == {p \in 1..(Len(text) + 1) :
                      Match(pattern, 1, text, p, NoGroups).ok}
    IN  IF starts = {} THEN NoMatch
        ELSE Match(pattern, 1, text,
                   CHOOSE p \in starts : \A r \in starts : p <= r, NoGroups)

\* \s*class\s+\w+\s*{
ClassLinePattern ==
    <<Group("space*", 0), Lit(<<"c", "l", "a", "s", "s">>), Group("space+",
        0),
      Group("word+", 0), Group("space*", 0), Lit(<<"{">>)>>
\* class\s+(\w+)
ClassNamePattern ==
    <<Lit(<<"c", "l", "a", "s", "s">>), Group("space+", 0), Group("word+",
        1)>>
\* \s*constructor\s*\(
ConstructorPattern ==
    <<Group("space*", 0), Lit(<<"c", "o", "n", "s", "t", "r", "u", "c",
        "t", "o", "r">>), Group("space*", 0),
      Lit(<<"(">>)>>
\* constructor\s*\((.*?)\)
ConstructorArgsPattern ==
    <<Lit(<<"c", "o", "n", "s", "t", "r", "u", "c", "t", "o", "r">>),
        Group("space*", 0), Lit(<<"(">>),
      Group("lazy", 1), Lit(<<")">>)>>
\* \s*\w+\s*\( and \s*(\w+)\s*\(
MethodPattern ==
    <<Group("space*", 0), Group("word+", 1), Group("space*", 0), Lit(<<"(">>)>>
\* \w+\s*\((.*?)\)
MethodArgsPattern ==
    <<Group("word+", 0), Group("space*", 0), Lit(<<"(">>), Group("lazy", 1),
      Lit(<<")">>)>>

\* the locals of _preprocess_javascript before the loop, and the line the
\* loop is at
StartScan(js_code) ==
    [lines |-> split(js_code, "\n"), at |-> 1, python_lines |-> << >>,
     in_class |-> FALSE, in_method |-> FALSE, current_method |-> << >>,
     method_body |-> << >>, indentation |-> 0, class_has_methods |-> FALSE,
     state |-> "loop"]

\* continue
Continue(s) == [s EXCEPT !.at = @ + 1]

\* if not line.strip(): python_lines.append(line)
OnBlank(s, line) ==
    Continue([s EXCEPT !.python_lines = Append(@, line)])

\* the class header
OnClass(s, line) ==
    LET class_name == ReSearch(ClassNamePattern, line).groups[1]
    IN  Continue([s EXCEPT
            !.python_lines = @ \o <<<<"c", "l", "a", "s", "s",
                " ">> \o class_name \o <<":">>,
                                    <<" ", " ", " ", " ", "p", "a", "s",
                                        "s">>>>,
            !.in_class = TRUE,
            !.indentation = 4])

\* the constructor header; python_lines[-1] = ... raises IndexError on an
\* empty list, and .group(1) raises AttributeError when the line has no
\* closing parenthesis
OnConstructor(s, line) ==
    IF ~ReSearch(ConstructorArgsPattern, line).ok \/ s.python_lines = << >>
    THEN [s EXCEPT !.state = "raised"]
    ELSE Continue([s EXCEPT
            !.python_lines =
                [@ EXCEPT ![Len(@)] = <<" ", " ", " ", " ", "d", "e", "f",
                    " ", "_", "_", "i", "n", "i", "t", "_", "_", "(", "s",
                        "e", "l", "f", ")", ":">>],
            !.current_method = <<"_", "_", "i", "n", "i", "t", "_", "_">>,
            !.in_method = TRUE,
            !.indentation = 8,
            !.class_has_methods = TRUE])

\* a method header
OnMethod(s, line) ==
    LET method_name == ReSearch(MethodPattern, line).groups[1]
    IN  IF ~ReSearch(MethodArgsPattern, line).ok
        THEN [s EXCEPT !.state = "raised"]
        ELSE Continue([s EXCEPT
                !.python_lines =
                    Append(@, <<" ", " ", " ", " ", "d", "e", "f",
                        " ">> \o method_name \o <<"(", "s", "e", "l", "f",
                            ")", ":">>),
                !.current_method = method_name,
                !.in_method = TRUE,
                !.indentation = 8,
                !.class_has_methods = TRUE])

\* a closing brace
OnClose(s) ==
    IF s.in_method
    THEN Continue([s EXCEPT
            !.python_lines =
                (IF s.method_body # << >> THEN @ \o s.method_body
                 ELSE Append(@, Spaces(s.indentation) \o <<"p", "a", "s",
                     "s">>))
                \o << << >> >>,
            !.method_body = << >>,
            !.current_method = << >>,
            !.in_method = FALSE,
            !.indentation = 4])
    ELSE IF s.in_class
    THEN Continue([s EXCEPT
            !.in_class = FALSE,
            !.class_has_methods = FALSE,
            !.indentation = 0,
            !.python_lines = Append(@, << >>)])
    ELSE Continue(s)

\* a line of a method body
OnBody(s, line) ==
    LET body_line == ReplaceFrom(rstrip(strip(line), {";"}), 1,
                                 <<"t", "h", "i", "s", ".">>, <<"s", "e",
                                     "l", "f", ".">>)
    IN  IF strip(body_line) = <<"{">> \/ body_line = << >> THEN Continue(s)
        ELSE Continue([s EXCEPT
                !.method_body =
                    Append(@, Spaces(s.indentation) \o body_line)])

\* any other line: kept if it starts with import or class
OnOther(s, line) ==
    IF StartsAt(strip(line), 1, <<"i", "m", "p", "o", "r", "t">>)
       \/ StartsAt(strip(line), 1, <<"c", "l", "a", "s", "s">>)
    THEN Continue([s EXCEPT !.python_lines = Append(@, line)])
    ELSE Continue(s)

\* which branch of the loop body takes the line: the first whose test
\* holds
Branch(s, line) ==
    IF strip(line) = << >> THEN "blank"
    ELSE IF ReMatch(ClassLinePattern, line).ok THEN "class"
    ELSE IF ReMatch(ConstructorPattern, line).ok THEN "constructor"
    ELSE IF ReMatch(MethodPattern, line).ok /\ s.in_class /\ ~s.in_method
         THEN "method"
    ELSE IF strip(line) = <<"}">> THEN "close"
    ELSE IF s.in_method THEN "body"
    ELSE "other"

\* after the loop: the pass of a class left open, and the join
Finish(s) ==
    [s EXCEPT
        !.python_lines = IF s.in_class /\ ~s.class_has_methods
                         THEN Append(@, <<" ", " ", " ", " ", "p", "a",
                             "s", "s">>) ELSE @,
        !.state = "returned"]

\* '\n'.join(python_lines)
_preprocess_javascript(s) == join(<<"\n">>, s.python_lines)

\* the lines the JavaScript sources are made of
JsClassLine == <<"c", "l", "a", "s", "s", " ", "A", " ", "{">>
JsConstructorLine == <<" ", " ", "c", "o", "n", "s", "t", "r", "u", "c",
    "t", "o", "r", "(", "x", ")", " ", "{">>
JsMethodLine == <<" ", " ", "m", "(", ")", " ", "{">>
JsIfLine == <<" ", " ", " ", " ", "i", "f", " ", "(", "x", ")", " ", "{">>
JsStoreLine == <<" ", " ", " ", " ", "t", "h", "i", "s", ".", "x", " ",
    "=", " ", "x", ";">>
JsCallLine == <<" ", " ", " ", " ", "b", ";">>
JsCloseBlock == <<" ", " ", " ", " ", "}">>
JsCloseMethod == <<" ", " ", "}">>
JsCloseClass == <<"}">>
JsImportLine == <<"i", "m", "p", "o", "r", "t", " ", "x">>

\* the bodies of a method: empty, one statement, a nested block, and a
\* nested block with a statement after it
JsBodies ==
    {<< >>,
     <<JsStoreLine>>,
     <<JsIfLine, JsStoreLine, JsCloseBlock>>,
     <<JsIfLine, JsStoreLine, JsCloseBlock, JsCallLine>>}

JsMembers ==
    {<<header>> \o body \o <<JsCloseMethod>> :
        header \in {JsConstructorLine, JsMethodLine}, body \in JsBodies}

RECURSIVE MemberLists(_)
MemberLists(n) ==
    IF n = 0 THEN {<< >>}
    ELSE MemberLists(n - 1)
         \cup {ms \o m : ms \in MemberLists(n - 1), m \in JsMembers}

\* a source: nothing, an import, a blank line or a statement, then one class
JsSources ==
    {join(<<"\n">>, before \o <<JsClassLine>> \o members \o <<JsCloseClass>>) :
        before \in {<< >>, <<JsImportLine>>, << << >> >>, <<JsCallLine>>},
        members \in MemberLists(MaxMembers)}

ScanInit ==
    /\ CaseIdle
    /\ StyleIdle
    /\ ProfileIdle
    /\ RenderIdle
    /\ AnalysisIdle
    /\ style_handler = "none"
    /\ calls = << >>
    /\ api_keys = << >>
    /\ requests = << >>
    /\ \E js_code \in JsSources : scanner = StartScan(js_code)

ScanUnchanged ==
    UNCHANGED <<caseVars, styleVars, profileVars, renderVars, analysisVars,
                style_handler, calls, api_keys, requests>>

\* the line the loop is at
Line == scanner.lines[scanner.at]

Scanning(branch) ==
    /\ scanner.state = "loop"
    /\ scanner.at <= Len(scanner.lines)
    /\ Branch(scanner, Line) = branch

ScanBlank ==
    /\ Scanning("blank")
    /\ scanner' = OnBlank(scanner, Line)
    /\ ScanUnchanged

ScanClass ==
    /\ Scanning("class")
    /\ scanner' = OnClass(scanner, Line)
    /\ ScanUnchanged

ScanConstructor ==
    /\ Scanning("constructor")
    /\ scanner' = OnConstructor(scanner, Line)
    /\ ScanUnchanged

ScanMethod ==
    /\ Scanning("method")
    /\ scanner' = OnMethod(scanner, Line)
    /\ ScanUnchanged

ScanClose ==
    /\ Scanning("close")
    /\ scanner' = OnClose(scanner)
    /\ ScanUnchanged

ScanBody ==
    /\ Scanning("body")
    /\ scanner' = OnBody(scanner, Line)
    /\ ScanUnchanged

ScanOther ==
    /\ Scanning("other")
    /\ scanner' = OnOther(scanner, Line)
    /\ ScanUnchanged

ScanReturn ==
    /\ scanner.state = "loop"
    /\ scanner.at > Len(scanner.lines)
    /\ scanner' = Finish(scanner)
    /\ ScanUnchanged

ScanNext ==
    \/ ScanBlank
    \/ ScanClass
    \/ ScanConstructor
    \/ ScanMethod
    \/ ScanClose
    \/ ScanBody
    \/ ScanOther
    \/ ScanReturn

SpecScan == ScanInit /\ [][ScanNext]_vars

\* the blocks open after the lines scanned so far: the lines that end with
\* an opening brace less the closing-brace lines
Depth ==
    LET scanned == SubSeq(scanner.lines, 1, scanner.at - 1)
        opens == {k \in 1..Len(scanned) :
                     /\ strip(scanned[k]) # << >>
                     /\ strip(scanned[k])[Len(strip(scanned[k]))] = "{"}
        closes == {k \in 1..Len(scanned) : strip(scanned[k]) = <<"}">>}
    IN  Cardinality(opens) - Cardinality(closes)

\* C27: the line scanner tracks nesting depth: the scanner is inside the
\* class exactly while the class's block is open and inside a method
\* exactly while the method's own block is open, so the closing marker of
\* a block nested in a method body ends neither the method nor the class.
C27_ClosingMarkerAtItsDepth ==
    scanner.state \in {"loop", "returned"} =>
        /\ scanner.in_class = (Depth >= 1)
        /\ scanner.in_method = (Depth >= 2)

-----------------------------------------------------------------------------
(* Specification of module-scope bindings: analyze_module on sources with  *)
(* assignments at module scope, in a function and in a class               *)

\* the statements a source is written from
BindingNodes ==
    {Assign("x", <<"x", " = ", "1">>),
     Assign("y", <<"y", " = ", "x">>),
     FunctionDef("f", << >>, <<Assign("z", <<"z", " = ", "2">>)>>),
     ClassDef("A", <<Assign("w", <<"w", " = ", "3">>)>>),
     Import(<<"os">>)}

BindingsNext ==
    \/ \E node \in BindingNodes : AddNode(node)
    \/ AnalyzeModule

SpecBindings == AnalyzeInit /\ [][BindingsNext]_vars

\* the names bound by direct assignment at module scope, in source order
ModuleScopeNames ==
    LET assigns == SelectSeq(tree, LAMBDA node : node.kind = "Assign")
    IN  [k \in 1..Len(assigns) |-> assigns[k].body[1].name]

\* C28: ModuleInfo.globals lists, in source order, exactly the names bound
\* by direct assignment at module scope, and no name assigned only inside
\* a function or class body.
C28_GlobalsAreModuleScopeNames ==
    call = "analyze_module" => module_info.globals = ModuleScopeNames

\* the lines a step of the rendering loop appends to js_lines
Emitted == SubSeq(js_lines', Len(js_lines) + 1, Len(js_lines'))

\* a line that opens a block ends with an opening brace; a closing-brace
\* line starts with a closing brace
OpeningLines(ls) ==
    {k \in 1..Len(ls) : ls[k].toks # << >> /\ ls[k].toks[Len(ls[k].toks)] = "{"}
ClosingLines(ls) ==
    {k \in 1..Len(ls) : ls[k].toks # << >> /\ ls[k].toks[1] = "}"}

\* C29: during rule-based Python-to-JavaScript rendering the nesting
\* counter is incremented exactly when a block-opening line is emitted
\* and decremented exactly once per emitted closing-brace line; it is
\* never negative, every non-blank line is emitted with the prefix
\* indent_unit x (counter at emission) and nothing more, and the counter
\* is 0 when rendering returns.
C29_CounterFollowsBlocks ==
    [][(call = "rule_based" /\ pc \in {"lines", "final"}) =>
          /\ (indent_level' = indent_level + IndentUnit)
                 = (OpeningLines(Emitted) # {})
          /\ indent_level' < indent_level + IndentUnit =>
                 indent_level - indent_level'
                     = IndentUnit * Cardinality(ClosingLines(Emitted))
          /\ indent_level' >= 0
          /\ \A k \in 1..Len(Emitted) :
                Emitted[k].toks # << >> =>
                    /\ Emitted[k].ind
                           = (IF k \in ClosingLines(Emitted)
                              THEN indent_level' ELSE indent_level)
                             \div IndentUnit
                    /\ Emitted[k].toks[1] # "    "
          /\ pc' = "done" => indent_level' = 0]_vars

-----------------------------------------------------------------------------
(* Specification of API usage metering: api/server.py, concurrent          *)
(* /translate requests, each running verify_api_key and then the body of   *)
(* translate_code                                                          *)
(*                                                                         *)
(* The SELECT of verify_api_key and the UPDATE of translate_code are two   *)
(* statements on two connections; each is one step.                        *)

Clients == 1..MaxClients

\* the key of the api_keys table, and a key that is not in it
KnownKey == "key"
UnknownKey == "other"

NoRequest == [pc |-> "idle", api_key |-> "none", status |-> 0]

MeterInit ==
    /\ CaseIdle
    /\ StyleIdle
    /\ ProfileIdle
    /\ RenderIdle
    /\ AnalysisIdle
    /\ style_handler = "none"
    /\ calls = << >>
    /\ scanner = << >>
    /\ \E monthly_limit \in 1..MaxLimit :
          api_keys = [k \in {KnownKey} |->
                         [monthly_limit |-> monthly_limit, used_requests |-> 0]]
    /\ requests = [r \in Clients |-> NoRequest]

MeterUnchanged ==
    UNCHANGED <<caseVars, styleVars, profileVars, renderVars, analysisVars,
                style_handler, calls, scanner>>

\* POST /translate with the header X-API-Key
PostTranslate(r, api_key) ==
    /\ requests[r].pc \in {"idle", "done"}
    /\ requests' = [requests EXCEPT ![r] =
                       [pc |-> "verify", api_key |-> api_key, status |-> 0]]
    /\ UNCHANGED api_keys
    /\ MeterUnchanged

\* verify_api_key: the SELECT, 401 for no row, 429 when used_requests >=
\* monthly_limit, else the api_info handed to translate_code
VerifyApiKey(r) ==
    /\ requests[r].pc = "verify"
    /\ requests' = [requests EXCEPT ![r] =
          IF @.api_key \notin DOMAIN api_keys
          THEN [@ EXCEPT !.pc = "done", !.status = 401]
          ELSE IF api_keys[@.api_key].used_requests
                      >= api_keys[@.api_key].monthly_limit
          THEN [@ EXCEPT !.pc = "done", !.status = 429]
          ELSE [@ EXCEPT !.pc = "translate"]]
    /\ UNCHANGED api_keys
    /\ MeterUnchanged

\* translate_code: UPDATE api_keys SET used_requests = used_requests + 1,
\* commit, and the response
RecordUsage(r) ==
    /\ requests[r].pc = "translate"
    /\ api_keys' = [api_keys EXCEPT ![requests[r].api_key].used_requests = @ + 1]
    /\ requests' = [requests EXCEPT ![r].pc = "done", ![r].status = 200]
    /\ MeterUnchanged

MeterNext ==
    \E r \in Clients :
        \/ \E api_key \in {KnownKey, UnknownKey} : PostTranslate(r, api_key)
        \/ VerifyApiKey(r)
        \/ RecordUsage(r)

SpecMeter == MeterInit /\ [][MeterNext]_vars

\* C30: usage metering enforces the monthly limit: for every API key,
\* after any interleaving of concurrent /translate requests, used_requests
\* never exceeds monthly_limit.
C30_LimitEnforced ==
    \A k \in DOMAIN api_keys :
        api_keys[k].used_requests <= api_keys[k].monthly_limit

=============================================================================
